---- MODULE Spec2Model ----
(***************************************************************************)
(* A model of the secnetperf client driver, src/perf/lib/PerfClient.cpp.   *)
(*                                                                         *)
(* The module holds several specifications over one set of variables:      *)
(*   Spec       the run: Start queues connections round-robin, the workers *)
(*              create them, the transport calls back, each thread one     *)
(*              access to the worker's counters at a time.  Streams are    *)
(*              counted; their byte level is left to SpecStream, the       *)
(*              threads' positions and Wait to SpecWait.                   *)
(*   SpecStart  the queueing loop of Start alone.                          *)
(*   SpecInit   Init called once on every combination of the options.      *)
(*   SpecExtra  GetExtraDataMetadata and GetExtraData after a run.         *)
(*   SpecStream one connection's streams, one at a time, at the level of   *)
(*              the bytes sent, acknowledged and received.                 *)
(*   SpecRing   several streams finalizing concurrently on the latency     *)
(*              ring.                                                      *)
(*   SpecWait   Wait, the worker threads and their shutdown, under weak    *)
(*              fairness of every thread and of the transport.             *)
(*   SpecTcp    one TCP connection, its streams and the callbacks of the   *)
(*              TCP engine.                                                *)
(*   SpecConn   the stream accounting of one QUIC connection, with         *)
(*              repeat-streams mode and failing StreamOpen calls.          *)
(*   SpecSend   the send side of one stream of a run that is not timed.    *)
(*   SpecConnFair  SpecConn with every opened stream ended in the end.     *)
(* Handlers are operators from records to records; an action applies the   *)
(* whole handler, the calls it makes included, but where the handler runs  *)
(* without a lock next to other threads on the counters of a worker        *)
(* (StartNewConnection, OnConnectionComplete): there an action is one      *)
(* access to the counters.                                                 *)
(***************************************************************************)
EXTENDS Integers, Sequences, FiniteSets, TLC

VARIABLES
    Client,         \* PerfClient: the configuration Init leaves, Running, the latency ring
    Workers,        \* PerfClientWorker[]: counters, WakeEvent, the thread's position
    Connections,    \* per worker, the PerfClientConnections it allocated, in order
    StartIndex,     \* the loop variable i of PerfClient::Start's queueing loop
    WaitThread,     \* the position of the thread inside PerfClient::Wait
    CompletionEvent,\* *CompletionEvent: TRUE once set
    SignalCount,    \* history: how often Client.OnConnectionsComplete was invoked
    InducedFailure, \* history: TRUE once the environment has made something fail
    Args,           \* the options and the environment PerfClient::Init is called with
    InitStatus,     \* what PerfClient::Init returned, "none" before the call
    Streams,        \* the PerfClientStreams allocated so far, in order
    Now,            \* CxPlatTimeUs64()
    ExtraData,      \* the caller's buffer around GetExtraDataMetadata / GetExtraData
    Tcp             \* the TCP engine: the descriptors handed to TcpConn->Send, in order

vars == <<Client, Workers, Connections, StartIndex, WaitThread, CompletionEvent,
          SignalCount, InducedFailure, Args, InitStatus, Streams, Now, ExtraData,
          Tcp>>

\* The variables a specification does not use keep these values.
optionVars == <<Args, InitStatus>>
streamVars == <<Streams, Now, Tcp>>
runVars == <<StartIndex, WaitThread, CompletionEvent, SignalCount, InducedFailure>>

NoOptions == Args = << >> /\ InitStatus = "none"
\* The TCP engine before anything was handed to it.  Done counts the
\* descriptors it has completed; Fault is "none" while the process runs;
\* FinBits is the width in bits of TcpSendData::Fin.
NoTcp == [Sends |-> << >>, Done |-> 0, Fault |-> "none", FinBits |-> 1]

NoStreams == Streams = << >> /\ Now = 0 /\ Tcp = NoTcp
NoExtraData == ExtraData = << >>
NoRun ==
    /\ StartIndex = 0
    /\ WaitThread = [pc |-> "wait", Timeout |-> 0, i |-> 0]
    /\ CompletionEvent = FALSE
    /\ SignalCount = 0
    /\ InducedFailure = FALSE

(***************************************************************************)
(* Bounds of the model.                                                    *)
(***************************************************************************)
MaxWorkers == 2
MaxConnectionCount == 2
MaxStreamCount == 1
MaxQueued == 3

Sum2(f, S) == IF S = {} THEN 0 ELSE
    LET RECURSIVE Acc(_)
        Acc(T) == IF T = {} THEN 0 ELSE LET x == CHOOSE y \in T : TRUE IN f[x] + Acc(T \ {x})
    IN Acc(S)

WorkerIds == 0 .. (Client.WorkerCount - 1)

(***************************************************************************)
(* PerfClientWorker.  QueueNewConnection and Uninitialize are defined in   *)
(* PerfClient.h: they are modelled from the specification's section 4.2    *)
(* and 5 (increment ConnectionsQueued and signal WakeEvent; signal         *)
(* WakeEvent and join).                                                    *)
(***************************************************************************)
NewWorker == [ConnectionsQueued |-> 0, ConnectionsCreated |-> 0, ConnectionsActive |-> 0,
              ConnectionsConnected |-> 0, ConnectionsCompleted |-> 0,
              StreamsStarted |-> 0, StreamsCompleted |-> 0,
              WakeEvent |-> FALSE, pc |-> "loop"]

\* QueueNewConnection without the signal.
QueueNewConnection_NoSignal(wk) ==
    [wk EXCEPT !.ConnectionsQueued = @ + 1]

QueueNewConnection(wk) ==
    [wk EXCEPT !.ConnectionsQueued = @ + 1, !.WakeEvent = TRUE]

\* The test of PerfClientWorker::OnConnectionComplete on the counters as
\* they are in wk.
CompletionPredicate(wk) ==
    wk.ConnectionsActive = 0 /\ wk.ConnectionsCreated = wk.ConnectionsQueued

\* PerfClientWorker::OnConnectionComplete runs on the thread of the transport
\* that delivers the callback and takes no lock: other threads run between
\* any two of its accesses to the counters.  t is the thread inside the call:
\*   t.pc   "call"        about to increment ConnectionsCompleted
\*          "completed"   about to decrement ConnectionsActive
\*          "decremented" about to test RepeatConnections and, not in repeat
\*                        mode, to read ConnectionsActive
\*          "zero"        ConnectionsActive was read as 0; about to read one
\*                        operand of ConnectionsCreated == ConnectionsQueued
\*          "created", "queued"
\*                        that operand was read; about to read the other
\*          "return"      the call has returned
\*   t.Seen the operand read, 0 when the thread holds none
\* The two operands of == are read in the order the compiler chose: `first`
\* names the one read first.  The result is the worker and the thread after
\* the next access, and whether the access ended in
\* Client->OnConnectionsComplete().
WorkerOnConnectionCompleteStep(wk, t, first) ==
    CASE t.pc = "call" ->
            [wk |-> [wk EXCEPT !.ConnectionsCompleted = @ + 1],
             t |-> [t EXCEPT !.pc = "completed"], signal |-> FALSE]
      [] t.pc = "completed" ->
            [wk |-> [wk EXCEPT !.ConnectionsActive = @ - 1],
             t |-> [t EXCEPT !.pc = "decremented"], signal |-> FALSE]
      [] t.pc = "decremented" ->
            IF Client.RepeatConnections
            THEN [wk |-> QueueNewConnection(wk),
                  t |-> [t EXCEPT !.pc = "return"], signal |-> FALSE]
            ELSE [wk |-> wk,
                  t |-> [t EXCEPT !.pc = IF wk.ConnectionsActive = 0
                                         THEN "zero" ELSE "return"],
                  signal |-> FALSE]
      [] t.pc = "zero" ->
            [wk |-> wk,
             t |-> IF first = "ConnectionsCreated"
                   THEN [pc |-> "created", Seen |-> wk.ConnectionsCreated]
                   ELSE [pc |-> "queued", Seen |-> wk.ConnectionsQueued],
             signal |-> FALSE]
      [] t.pc = "created" ->
            [wk |-> wk, t |-> [pc |-> "return", Seen |-> 0],
             signal |-> t.Seen = wk.ConnectionsQueued]
      [] t.pc = "queued" ->
            [wk |-> wk, t |-> [pc |-> "return", Seen |-> 0],
             signal |-> wk.ConnectionsCreated = t.Seen]
      [] OTHER -> [wk |-> wk, t |-> t, signal |-> FALSE]

\* A thread about to call OnConnectionComplete.
NewThread == [pc |-> "call", Seen |-> 0]

\* PerfClientWorker::OnConnectionComplete on a thread that no other thread
\* runs across: the worker after the call, and whether
\* Client->OnConnectionsComplete() was invoked.
RECURSIVE WorkerOnConnectionCompleteFrom(_, _)
WorkerOnConnectionCompleteFrom(wk, t) ==
    IF t.pc = "return" THEN [wk |-> wk, signal |-> FALSE]
    ELSE LET r == WorkerOnConnectionCompleteStep(wk, t, "ConnectionsCreated")
             q == WorkerOnConnectionCompleteFrom(r.wk, r.t)
         IN  [wk |-> q.wk, signal |-> r.signal \/ q.signal]

WorkerOnConnectionComplete(wk) == WorkerOnConnectionCompleteFrom(wk, NewThread)

(***************************************************************************)
(* PerfClientConnection.  State is the transport's view of the connection: *)
(*   "started"   Initialize succeeded, no callback yet                     *)
(*   "connected" OnConnectionComplete has run                              *)
(*   "shutdown"  ConnectionShutdown was called                             *)
(*   "closed"    the transport has delivered its last callback, which is   *)
(*               inside OnShutdownComplete                                 *)
(*   "freed"     the object went back to ConnectionAllocator               *)
(* OpenStreams counts the streams that still owe their finalization.       *)
(* Thread is the transport's thread inside OnShutdownComplete, "none"      *)
(* before the callback.                                                    *)
(* FreeCount, FreedBy and InitFailed are history, and so is Connect, how   *)
(* the transport's connect came out: "none", "connected" or "failed", and  *)
(* Left: whether the decrement of ConnectionsActive for this connection    *)
(* left the worker with the completion predicate true.                     *)
(***************************************************************************)
NewConnection(w) ==
    [Worker |-> w, State |-> "started", StreamsCreated |-> 0, StreamsActive |-> 0,
     OpenStreams |-> 0, ShutdownCalls |-> 0, FreeCount |-> 0, FreedBy |-> "none",
     InitFailed |-> FALSE, Connect |-> "none",
     Thread |-> [pc |-> "none", Seen |-> 0], Left |-> FALSE]

\* Worker.ConnectionAllocator.Free(this), called from `by`.
FreeConnection(conn, by) ==
    [conn EXCEPT !.State = "freed", !.FreeCount = @ + 1,
                 !.FreedBy = IF @ = "none" THEN by ELSE @]

\* The steps of PerfClientConnection::Initialize that can fail.  Each failure
\* path is `Worker.ConnectionAllocator.Free(this); return;`.
InitializeFailures ==
    IF Client.UseTCP THEN {"TcpConnection"}
    ELSE {"ConnectionOpen", "SetParam", "ConnectionStart"}

\* PerfClientConnection::Initialize, failing at step `fail` ("none": no failure).
Initialize(conn, fail) ==
    IF fail = "none" THEN conn
    ELSE [FreeConnection(conn, "Initialize") EXCEPT !.InitFailed = TRUE]

\* PerfClientWorker::StartNewConnection runs on the worker's thread, without
\* a lock: the increment of ConnectionsCreated is one step, the increment of
\* ConnectionsActive with the allocation and Initialize of the connection,
\* which no other thread knows yet, the next.
StartNewConnectionCreated(wk) ==
    [wk EXCEPT !.ConnectionsCreated = @ + 1]

StartNewConnectionActive(wk, w, fail) ==
    [wk   |-> [wk EXCEPT !.ConnectionsActive = @ + 1],
     conn |-> Initialize(NewConnection(w), fail)]

\* MsQuic->ConnectionShutdown(Handle, ...).
ConnectionShutdown(conn) ==
    [conn EXCEPT !.State = "shutdown", !.ShutdownCalls = @ + 1]

\* PerfClientConnection::StartNewStream; opened = FALSE when StreamOpen fails
\* (QUIC only), and then the stream is freed without any further accounting.
StartNewStream(cw, opened) ==
    LET c1 == [cw.conn EXCEPT !.StreamsCreated = @ + 1, !.StreamsActive = @ + 1]
    IN  IF opened
        THEN [conn |-> [c1 EXCEPT !.OpenStreams = @ + 1],
              wk   |-> [cw.wk EXCEPT !.StreamsStarted = @ + 1]]
        ELSE [conn |-> c1, wk |-> cw.wk]

\* n calls of StartNewStream, the first `fails` of which fail to open.
RECURSIVE StartStreams(_, _, _)
StartStreams(cw, n, fails) ==
    IF n = 0 THEN cw
    ELSE StartStreams(StartNewStream(cw, fails = 0), n - 1,
                      IF fails = 0 THEN 0 ELSE fails - 1)

\* PerfClientConnection::OnConnectionComplete.
ConnOnConnectionComplete(cw, fails) ==
    LET w1 == [cw.wk EXCEPT !.ConnectionsConnected = @ + 1]
        c1 == [cw.conn EXCEPT !.State = "connected"]
    IN  IF Client.StreamCount = 0
        THEN [conn |-> ConnectionShutdown(c1), wk |-> w1]
        ELSE StartStreams([conn |-> c1, wk |-> w1], Client.StreamCount, fails)

\* PerfClientConnection::OnShutdownComplete, one access of its thread to
\* shared memory: an access of Worker.OnConnectionComplete or, that call
\* having returned, Worker.ConnectionAllocator.Free(this).
ConnOnShutdownCompleteStep(cw, first) ==
    LET t == IF cw.conn.Thread.pc = "none" THEN NewThread ELSE cw.conn.Thread
        r == WorkerOnConnectionCompleteStep(cw.wk, t, first)
    IN  IF t.pc = "return"
        THEN [conn   |-> [FreeConnection(cw.conn, "OnShutdownComplete") EXCEPT
                             !.Thread.pc = "done"],
              wk     |-> cw.wk,
              signal |-> FALSE]
        ELSE [conn   |-> [cw.conn EXCEPT
                             !.State = "closed",
                             !.Thread = r.t,
                             !.Left = IF t.pc = "completed"
                                      THEN CompletionPredicate(r.wk) ELSE @],
              wk     |-> r.wk,
              signal |-> r.signal]

\* OnStreamShutdownComplete without the top-up of repeat-streams mode.
ConnOnStreamShutdownComplete_NoTopUp(cw, fails) ==
    LET c1 == [cw.conn EXCEPT !.StreamsActive = @ - 1]
    IN  IF Client.RepeatStreams
        THEN [conn |-> c1, wk |-> cw.wk]
        ELSE IF c1.StreamsActive = 0 /\ c1.StreamsCreated = Client.StreamCount
             THEN [conn |-> ConnectionShutdown(c1), wk |-> cw.wk]
             ELSE [conn |-> c1, wk |-> cw.wk]

\* PerfClientConnection::OnStreamShutdownComplete.
ConnOnStreamShutdownComplete(cw, fails) ==
    LET c1 == [cw.conn EXCEPT !.StreamsActive = @ - 1]
    IN  IF Client.RepeatStreams
        THEN IF c1.StreamsActive < Client.StreamCount
             THEN StartStreams([conn |-> c1, wk |-> cw.wk],
                               Client.StreamCount - c1.StreamsActive, fails)
             ELSE [conn |-> c1, wk |-> cw.wk]
        ELSE IF c1.StreamsActive = 0 /\ c1.StreamsCreated = Client.StreamCount
             THEN [conn |-> ConnectionShutdown(c1), wk |-> cw.wk]
             ELSE [conn |-> c1, wk |-> cw.wk]

\* PerfClientConnection::TcpConnectCallback; of OnShutdownComplete, the
\* first access to the worker's counters.
TcpConnectCallback(cw, IsConnected) ==
    IF ~IsConnected
    THEN ConnOnConnectionComplete(cw, 0) @@ [signal |-> FALSE]
    ELSE ConnOnShutdownCompleteStep(cw, "ConnectionsCreated")

\* PerfClientConnection::ConnectionCallback; of OnShutdownComplete, the first
\* access to the worker's counters.
ConnectionCallback(cw, Event, fails) ==
    CASE Event = "CONNECTED"         -> ConnOnConnectionComplete(cw, fails) @@ [signal |-> FALSE]
      [] Event = "SHUTDOWN_COMPLETE" -> ConnOnShutdownCompleteStep(cw, "ConnectionsCreated")
      [] OTHER                       -> cw @@ [signal |-> FALSE]

(***************************************************************************)
(* The latency ring and the finalization of a stream.                      *)
(***************************************************************************)
\* The largest sample the ring stores.  The source clamps at UINT32_MAX; TLC's
\* integers end at 2^31 - 1, which stands for it here.
LatencySampleMax == 2147483647

\* The reservation without the increment.
ReserveLatencyIndex_NoIncrement(cl) == cl

\* InterlockedIncrement64(&CurLatencyIndex); Index is the value before it.
ReserveLatencyIndex(cl) == [cl EXCEPT !.CurLatencyIndex = @ + 1]

\* The store with LatencyCount incremented whatever Index is.
StoreLatency_NoIndexTest(cl, Index, Latency) ==
    IF Index < cl.MaxLatencyIndex
    THEN [cl EXCEPT !.LatencyValues[Index] =
                        IF Latency > LatencySampleMax THEN LatencySampleMax ELSE Latency,
                    !.LatencyCount = @ + 1]
    ELSE [cl EXCEPT !.LatencyCount = @ + 1]

\* `if (Index < Client.MaxLatencyIndex) { LatencyValues[Index] = ...;
\* InterlockedIncrement64(&LatencyCount); }`.
StoreLatency(cl, Index, Latency) ==
    IF Index < cl.MaxLatencyIndex
    THEN [cl EXCEPT !.LatencyValues[Index] =
                        IF Latency > LatencySampleMax THEN LatencySampleMax ELSE Latency,
                    !.LatencyCount = @ + 1]
    ELSE cl

\* The ring part of `if (SendSuccess && RecvSuccess)` in
\* PerfClientStream::OnStreamShutdownComplete, in one piece.
RecordLatency(cl, Latency) ==
    StoreLatency(ReserveLatencyIndex(cl), cl.CurLatencyIndex, Latency)

\* The end of PerfClientStream::OnStreamShutdownComplete: StreamsCompleted,
\* the stream freed, Connection.OnStreamShutdownComplete.
FinishStream(cw, Success, fails) ==
    LET w1  == IF Success THEN [cw.wk EXCEPT !.StreamsCompleted = @ + 1] ELSE cw.wk
        c1  == [cw.conn EXCEPT !.OpenStreams = @ - 1]
    IN  ConnOnStreamShutdownComplete([conn |-> c1, wk |-> w1], fails)

\* PerfClientStream::OnStreamShutdownComplete from the test of the two
\* success flags on, in one piece.
FinalizeStream(cl, cw, Success, Latency, fails) ==
    FinishStream(cw, Success, fails)
        @@ [client |-> IF Success THEN RecordLatency(cl, Latency) ELSE cl]

(***************************************************************************)
(* Spec: the run up to the moment Wait stops it.                           *)
(***************************************************************************)
\* What PerfClient::Init leaves for the options of the run; the stream-level
\* options stay at their defaults (see SpecStream for them).
RunConfig(tcp, rc, sc, cc, wc) ==
    [UseTCP |-> tcp, RepeatConnections |-> rc, RepeatStreams |-> FALSE,
     StreamCount |-> sc, ConnectionCount |-> cc, WorkerCount |-> wc,
     Upload |-> 0, Download |-> 0, Timed |-> FALSE, IoSize |-> 256,
     UseSendBuffering |-> FALSE, RunTime |-> IF rc THEN 1000 ELSE 0,
     MaxLatencyIndex |-> 0, Running |-> TRUE,
     CurLatencyIndex |-> 0, LatencyCount |-> 0, LatencyValues |-> << >>]

RunConfigs ==
    { RunConfig(tcp, rc, sc, cc, wc) :
        tcp \in BOOLEAN, rc \in BOOLEAN, sc \in 0 .. MaxStreamCount,
        cc \in 1 .. MaxConnectionCount, wc \in 1 .. MaxWorkers }

RunInit ==
    /\ Client \in RunConfigs
    /\ Workers = [w \in 0 .. (Client.WorkerCount - 1) |-> NewWorker]
    /\ Connections = [w \in 0 .. (Client.WorkerCount - 1) |-> << >>]
    /\ NoRun /\ NoOptions /\ NoStreams /\ NoExtraData

\* Start handing out the connections in blocks instead of round-robin.
StartTarget_Blocks(i) == (i \div 2) % Client.WorkerCount

\* The worker PerfClient::Start queues its i-th connection on.
StartTarget(i) == i % Client.WorkerCount

\* One iteration of the queueing loop of PerfClient::Start.
StartQueue ==
    /\ StartIndex < Client.ConnectionCount
    /\ Workers' = [Workers EXCEPT ![StartTarget(StartIndex)] = QueueNewConnection(@)]
    /\ StartIndex' = StartIndex + 1
    /\ UNCHANGED <<Client, Connections, WaitThread, CompletionEvent, SignalCount,
                   InducedFailure>>
    /\ UNCHANGED <<optionVars, streamVars, ExtraData>>

\* PerfClientWorker::WorkerThread creates a connection while the backlog is
\* not empty.  Spec leaves the thread's wait on WakeEvent to SpecWait: while
\* Running is true a thread with a backlog always comes to StartNewConnection.
\* The thread is at "loop" outside StartNewConnection and at "created"
\* between its two increments.
WorkerStart(w) ==
    /\ Client.Running
    /\ Workers[w].pc = "loop"
    /\ Workers[w].ConnectionsCreated < Workers[w].ConnectionsQueued
    /\ Workers' = [Workers EXCEPT ![w] = [StartNewConnectionCreated(@) EXCEPT
                                             !.pc = "created"]]
    /\ UNCHANGED <<Client, Connections, StartIndex, WaitThread, CompletionEvent,
                   SignalCount, InducedFailure>>
    /\ UNCHANGED <<optionVars, streamVars, ExtraData>>

\* The rest of StartNewConnection: ConnectionsActive, and the connection
\* allocated and initialized.
WorkerInitialize(w, fail) ==
    /\ Workers[w].pc = "created"
    /\ LET r == StartNewConnectionActive(Workers[w], w, fail)
       IN  /\ Workers' = [Workers EXCEPT ![w] = [r.wk EXCEPT !.pc = "loop"]]
           /\ Connections' = [Connections EXCEPT ![w] = Append(@, r.conn)]
    /\ InducedFailure' = (InducedFailure \/ fail # "none")
    /\ UNCHANGED <<Client, StartIndex, WaitThread, CompletionEvent, SignalCount>>
    /\ UNCHANGED <<optionVars, streamVars, ExtraData>>

\* Connection k of worker w, with its worker.
CW(w, k) == [conn |-> Connections[w][k], wk |-> Workers[w]]

ConnIdsOf(w) == 1 .. Len(Connections[w])

\* The result r of a callback that tells the outcome of the connect.
Outcome(r, IsConnected) ==
    [r EXCEPT !.conn.Connect = IF IsConnected THEN "connected" ELSE "failed"]

\* The effect of a connection-level callback on connection k of worker w.
Deliver(w, k, r) ==
    /\ Connections' = [Connections EXCEPT ![w][k] = r.conn]
    /\ Workers' = [Workers EXCEPT ![w] = r.wk]
    /\ CompletionEvent' = (CompletionEvent \/ r.signal)
    /\ SignalCount' = SignalCount + (IF r.signal THEN 1 ELSE 0)

QueuedTotal == Sum2([w \in WorkerIds |-> Workers[w].ConnectionsQueued], WorkerIds)

\* The callbacks inside OnShutdownComplete that have not come to the test of
\* RepeatConnections yet.
Completing ==
    Sum2([w \in WorkerIds |->
             Cardinality({ k \in ConnIdsOf(w) :
                 Connections[w][k].Thread.pc \in {"completed", "decremented"} })],
         WorkerIds)

\* In repeat mode every completion queues a connection: the model stops at
\* MaxQueued of them.
MayComplete == Client.RepeatConnections => QueuedTotal + Completing < MaxQueued

\* QUIC_CONNECTION_EVENT_CONNECTED; `fails` of the StreamOpen calls fail.
QuicConnected(w, k, fails) ==
    /\ ~Client.UseTCP
    /\ Connections[w][k].State = "started"
    /\ Deliver(w, k, Outcome(ConnectionCallback(CW(w, k), "CONNECTED", fails), TRUE))
    /\ InducedFailure' = (InducedFailure \/ fails > 0)
    /\ UNCHANGED <<Client, StartIndex, WaitThread>>
    /\ UNCHANGED <<optionVars, streamVars, ExtraData>>

\* QUIC_CONNECTION_EVENT_SHUTDOWN_COMPLETE: after ConnectionShutdown once the
\* streams are done, or, as a failure, for a handshake that fails or a
\* connection the transport gives up while no stream is open.  The step is
\* the callback up to the increment of ConnectionsCompleted.
QuicShutdownComplete(w, k) ==
    /\ ~Client.UseTCP
    /\ \/ Connections[w][k].State = "started"
       \/ /\ Connections[w][k].State \in {"connected", "shutdown"}
          /\ Connections[w][k].OpenStreams = 0
    /\ MayComplete
    /\ LET r == ConnectionCallback(CW(w, k), "SHUTDOWN_COMPLETE", 0)
       IN  Deliver(w, k, IF Connections[w][k].State = "started" THEN Outcome(r, FALSE) ELSE r)
    /\ InducedFailure' = (InducedFailure \/ Connections[w][k].State # "shutdown")
    /\ UNCHANGED <<Client, StartIndex, WaitThread>>
    /\ UNCHANGED <<optionVars, streamVars, ExtraData>>

\* The TCP engine reports the outcome of the connect; with IsConnected the
\* step is the callback up to the increment of ConnectionsCompleted.
TcpConnect(w, k, IsConnected) ==
    /\ Client.UseTCP
    /\ Connections[w][k].State = "started"
    /\ IsConnected => MayComplete
    /\ Deliver(w, k, Outcome(TcpConnectCallback(CW(w, k), IsConnected), IsConnected))
    /\ InducedFailure' = (InducedFailure \/ ~IsConnected)
    /\ UNCHANGED <<Client, StartIndex, WaitThread>>
    /\ UNCHANGED <<optionVars, streamVars, ExtraData>>

\* The thread inside OnShutdownComplete of connection k makes its next access.
ShutdownCompleteStep(w, k, first) ==
    /\ Connections[w][k].Thread.pc \notin {"none", "done"}
    /\ Deliver(w, k, ConnOnShutdownCompleteStep(CW(w, k), first))
    /\ UNCHANGED <<Client, StartIndex, WaitThread, InducedFailure>>
    /\ UNCHANGED <<optionVars, streamVars, ExtraData>>

\* The order in which a build reads the operands of
\* ConnectionsCreated == ConnectionsQueued.
Operands == {"ConnectionsCreated", "ConnectionsQueued"}

\* A stream of the connection is finalized, with or without success.
StreamShutdownComplete(w, k, Success) ==
    /\ Connections[w][k].OpenStreams > 0
    /\ LET r == FinalizeStream(Client, CW(w, k), Success, 1, 0)
       IN  /\ Connections' = [Connections EXCEPT ![w][k] = r.conn]
           /\ Workers' = [Workers EXCEPT ![w] = r.wk]
           /\ Client' = r.client
    /\ InducedFailure' = (InducedFailure \/ ~Success)
    /\ UNCHANGED <<StartIndex, WaitThread, CompletionEvent, SignalCount>>
    /\ UNCHANGED <<optionVars, streamVars, ExtraData>>

RunNext ==
    \/ StartQueue
    \/ \E w \in WorkerIds : WorkerStart(w)
    \/ \E w \in WorkerIds : \E fail \in {"none"} \cup InitializeFailures :
          WorkerInitialize(w, fail)
    \/ \E w \in WorkerIds : \E k \in ConnIdsOf(w) :
          \E fails \in 0 .. Client.StreamCount : QuicConnected(w, k, fails)
    \/ \E w \in WorkerIds : \E k \in ConnIdsOf(w) : QuicShutdownComplete(w, k)
    \/ \E w \in WorkerIds : \E k \in ConnIdsOf(w) :
          \E IsConnected \in BOOLEAN : TcpConnect(w, k, IsConnected)
    \/ \E w \in WorkerIds : \E k \in ConnIdsOf(w) :
          \E first \in Operands : ShutdownCompleteStep(w, k, first)
    \/ \E w \in WorkerIds : \E k \in ConnIdsOf(w) :
          \E Success \in BOOLEAN : StreamShutdownComplete(w, k, Success)

Spec == RunInit /\ [][RunNext]_vars

(***************************************************************************)
(* Claims checked under Spec.                                              *)
(***************************************************************************)
CompletedTotal == Sum2([w \in WorkerIds |-> Workers[w].ConnectionsCompleted], WorkerIds)

\* The step ends the test of OnConnectionComplete for connection k of worker
\* w: its thread leaves the call.
EndsCompletion(w, k) ==
    /\ Connections[w][k].Thread.pc \in {"decremented", "zero", "created", "queued"}
    /\ Connections'[w][k].Thread.pc = "return"

\* C1: Client.OnConnectionsComplete is invoked (and CompletionEvent set) by a
\* step exactly when the step ends, in non-repeat mode, the completion of a
\* connection that left its worker with ConnectionsActive = 0 and
\* ConnectionsCreated = ConnectionsQueued; a completion that left either
\* condition false does not invoke it, no other step does, and no step does in
\* repeat-connections mode.
C1_SignalExactlyOnLastCompletion ==
    [][ LET last == /\ ~Client.RepeatConnections
                    /\ \E w \in WorkerIds : \E k \in ConnIdsOf(w) :
                          EndsCompletion(w, k) /\ Connections[w][k].Left
        IN  /\ SignalCount' = SignalCount + (IF last THEN 1 ELSE 0)
            /\ CompletionEvent' = (CompletionEvent \/ last) ]_vars

AllFreed(w) == { k \in ConnIdsOf(w) : Connections[w][k].State = "freed" }

\* The connections of worker w that have ended: freed, or on the way there
\* inside OnShutdownComplete.
AllEnded(w) == { k \in ConnIdsOf(w) : Connections[w][k].State \in {"closed", "freed"} }

\* The ended connections of worker w whose thread has not decremented
\* ConnectionsActive yet.
AllCompleting(w) == { k \in ConnIdsOf(w) : Connections[w][k].Thread.pc = "completed" }

\* C2: a connection whose Initialize fails is freed and is counted as
\* completed through Worker.OnConnectionComplete: on every worker the ended
\* connections, freed ones included, are exactly the completed ones, and the
\* others, with those about to be decremented, the active ones.
C2_InitializeFailureCounted ==
    \A w \in WorkerIds :
        /\ AllFreed(w) \subseteq AllEnded(w)
        /\ Workers[w].ConnectionsCompleted = Cardinality(AllEnded(w))
        /\ Workers[w].ConnectionsActive =
              Len(Connections[w]) - Cardinality(AllEnded(w)) + Cardinality(AllCompleting(w))

AllQueuedCompleted ==
    /\ StartIndex = Client.ConnectionCount
    /\ \A w \in WorkerIds : Workers[w].ConnectionsCompleted = Workers[w].ConnectionsQueued

StreamsCompletedTotal ==
    Sum2([w \in WorkerIds |-> Workers[w].StreamsCompleted], WorkerIds)

\* C3: in a non-repeat run with StreamCount > 0 and no induced failure, once
\* every queued connection has completed, the StreamsCompleted of the workers
\* add up to StreamCount times their ConnectionsCompleted.
C3_StreamsPerCompletedConnection ==
    ( /\ ~Client.RepeatConnections
      /\ Client.StreamCount > 0
      /\ ~InducedFailure
      /\ AllQueuedCompleted )
    => StreamsCompletedTotal = CompletedTotal * Client.StreamCount

\* C6: every connection is freed at most once, and only by OnShutdownComplete.
C6_FreedOnceByShutdownComplete ==
    \A w \in WorkerIds : \A k \in ConnIdsOf(w) :
        /\ Connections[w][k].FreeCount <= 1
        /\ Connections[w][k].FreeCount = 1 => Connections[w][k].FreedBy = "OnShutdownComplete"

\* C25: not in repeat mode, a step that invokes Client.OnConnectionsComplete
\* leaves every connection of the run completed: Start has queued them all,
\* no worker has a connection active or queued and not created, and the
\* ConnectionsCompleted of the workers add up to ConnectionCount.
C25_SignalWhenRunComplete ==
    [][ (~Client.RepeatConnections /\ SignalCount' > SignalCount) =>
          /\ StartIndex' = Client.ConnectionCount
          /\ \A w \in WorkerIds :
                /\ Workers'[w].ConnectionsActive = 0
                /\ Workers'[w].ConnectionsCreated = Workers'[w].ConnectionsQueued
          /\ CompletedTotal' = Client.ConnectionCount ]_vars

\* The connections of worker w whose connect succeeded.
ConnectedOf(w) == { k \in ConnIdsOf(w) : Connections[w][k].Connect = "connected" }

\* C13: ConnectionsConnected counts exactly the connections whose connect
\* succeeded (QUIC CONNECTED, or the TCP connect callback with IsConnected =
\* true); such a connection has initiated shutdown if StreamCount is 0 and has
\* started StreamCount streams otherwise; a connection whose connect failed
\* has started no stream and went through OnShutdownComplete.
C13_ConnectedCountsSuccess ==
    \A w \in WorkerIds :
        /\ Workers[w].ConnectionsConnected = Cardinality(ConnectedOf(w))
        /\ \A k \in ConnIdsOf(w) :
              LET c == Connections[w][k]
              IN  /\ c.Connect = "connected" =>
                        IF Client.StreamCount = 0
                        THEN c.StreamsCreated = 0 /\ c.ShutdownCalls = 1
                        ELSE c.StreamsCreated = Client.StreamCount
                  /\ c.Connect = "failed" =>
                        /\ c.StreamsCreated = 0
                        /\ c.State = "closed" \/ c.FreedBy = "OnShutdownComplete"

(***************************************************************************)
(* SpecStart: PerfClient::Start's queueing loop alone, for more workers    *)
(* and connections than Spec affords.                                      *)
(***************************************************************************)
MaxStartWorkers == 4
MaxStartConnections == 7

StartInit ==
    /\ Client \in { RunConfig(FALSE, FALSE, 0, cc, wc) :
                      cc \in 0 .. MaxStartConnections, wc \in 1 .. MaxStartWorkers }
    /\ Workers = [w \in 0 .. (Client.WorkerCount - 1) |-> NewWorker]
    /\ Connections = [w \in 0 .. (Client.WorkerCount - 1) |-> << >>]
    /\ NoRun /\ NoOptions /\ NoStreams /\ NoExtraData

StartNext == StartQueue

SpecStart == StartInit /\ [][StartNext]_vars

\* The indices Start hands to worker w.
RoundRobinShare(w) ==
    Cardinality({ i \in 0 .. (Client.ConnectionCount - 1) : i % Client.WorkerCount = w })

\* C8: when Start's loop has ended, worker w has been queued as many
\* connections as there are i in [0, ConnectionCount) with i mod WorkerCount
\* = w; the counts add up to ConnectionCount and differ pairwise by at most 1.
C8_StartQueuesRoundRobin ==
    StartIndex = Client.ConnectionCount =>
        /\ \A w \in WorkerIds : Workers[w].ConnectionsQueued = RoundRobinShare(w)
        /\ QueuedTotal = Client.ConnectionCount
        /\ \A w1, w2 \in WorkerIds :
              Workers[w1].ConnectionsQueued - Workers[w2].ConnectionsQueued \in {-1, 0, 1}

\* C8's case: Start has ended after queueing on three workers, unevenly.
C8_Witness ==
    /\ StartIndex = Client.ConnectionCount
    /\ Client.WorkerCount = 3
    /\ Workers[0].ConnectionsQueued = 2
    /\ Workers[1].ConnectionsQueued = 2
    /\ Workers[2].ConnectionsQueued = 1

(***************************************************************************)
(* SpecInit: PerfClient::Init on every combination of the options.         *)
(* TryGetValue, DecodeHexBuffer, ConvertArgToAddress and the defaults of   *)
(* the members are defined outside PerfClient.cpp: an option is either     *)
(* Absent (TryGetValue leaves the member alone) or its value;              *)
(* DecodeHexBuffer returns the number of bytes it decoded, 0 when they do  *)
(* not fit.                                                                *)
(***************************************************************************)
Absent == -1
Opt(v, default) == IF v = Absent THEN default ELSE v

\* PERF_DEFAULT_IO_SIZE.
DefaultIoSize == 65536

\* The rate Init sizes the latency ring by for a timed run.  The model takes a
\* small rate, so that a run can fill the ring.
PERF_MAX_REQUESTS_PER_SECOND == 1

\* The room Init gives DecodeHexBuffer for the CIBIR id, and the least iosize.
CibirIdMax == 6
MinIoSize == 256

\* UINT32_MAX / sizeof(uint32_t).
MaxLatencyIndexCap == 1073741823

\* A hex string of n digits, as the values of its digits.
HexString(n) == [i \in 1 .. n |-> (5 * i + 6) % 16]

\* DecodeHexBuffer(HexBuffer, OutBufferLen, OutBuffer): the bytes written and
\* the count returned.
DecodeHexBuffer(HexBuffer, OutBufferLen) ==
    LET HexBufferLen == Len(HexBuffer) \div 2
    IN  IF HexBufferLen > OutBufferLen
        THEN [Length |-> 0, Bytes |-> << >>]
        ELSE [Length |-> HexBufferLen,
              Bytes  |-> [i \in 1 .. HexBufferLen |->
                             HexBuffer[2 * i - 1] * 16 + HexBuffer[2 * i]]]

\* A PerfClient as constructed, before Init.
NewClient ==
    [Target |-> FALSE, CibirIdLength |-> 0, CibirId |-> << >>,
     SpecificLocalAddresses |-> FALSE, UseTCP |-> FALSE, UseEncryption |-> TRUE,
     RepeatConnections |-> FALSE, RepeatStreams |-> FALSE,
     StreamCount |-> 0, ConnectionCount |-> 1, WorkerCount |-> 1,
     Upload |-> 0, Download |-> 0, Timed |-> FALSE, IoSize |-> DefaultIoSize,
     UseSendBuffering |-> FALSE, PrintLatency |-> FALSE, RunTime |-> 0,
     MaxLatencyIndex |-> 0, Running |-> TRUE,
     CurLatencyIndex |-> 0, LatencyCount |-> 0, LatencyValues |-> << >>]

Returns(status, cl) == [status |-> status, client |-> cl]

\* The test on the repeat options, with RepeatStreams left out.
RepeatWithoutRunTime_ConnectionsOnly(cl) ==
    cl.RepeatConnections /\ cl.RunTime = 0

\* `(RepeatConnections || RepeatStreams) && !RunTime`.
RepeatWithoutRunTime(cl) ==
    (cl.RepeatConnections \/ cl.RepeatStreams) /\ cl.RunTime = 0

\* The size Init gives the latency ring.
LatencyRingSize(cl) ==
    IF cl.RunTime # 0
    THEN LET n == (cl.RunTime \div 1000) * PERF_MAX_REQUESTS_PER_SECOND
         IN  IF n > MaxLatencyIndexCap THEN MaxLatencyIndexCap ELSE n
    ELSE cl.ConnectionCount * cl.StreamCount

\* PerfClient::Init from the scenario options on (lines 191 to 262).
InitScenario(a, cl) ==
    LET c1 == [cl EXCEPT !.ConnectionCount = Opt(a.ConnectionCount, @),
                         !.StreamCount = Opt(a.StreamCount, @),
                         !.IoSize = Opt(a.IoSize, @)]
        c2 == [c1 EXCEPT !.Upload = Opt(a.Upload, @),
                         !.Download = Opt(a.Download, @),
                         !.Timed = a.Timed,
                         !.RepeatConnections = a.RepeatConnections,
                         !.RepeatStreams = a.RepeatStreams,
                         !.RunTime = Opt(a.RunTime, @)]
        c3 == IF (c2.Upload # 0 \/ c2.Download # 0) /\ c2.StreamCount = 0
              THEN [c2 EXCEPT !.StreamCount = 1] ELSE c2
        c4 == [c3 EXCEPT !.MaxLatencyIndex = LatencyRingSize(c3)]
    IN  IF c1.IoSize < MinIoSize THEN Returns("QUIC_STATUS_INVALID_PARAMETER", c1)
        ELSE IF RepeatWithoutRunTime(c2) THEN Returns("QUIC_STATUS_INVALID_PARAMETER", c2)
        ELSE IF c2.UseTCP /\ ~c2.UseEncryption
             THEN Returns("QUIC_STATUS_INVALID_PARAMETER", c2)
        ELSE IF ~c3.PrintLatency THEN Returns("QUIC_STATUS_SUCCESS", c3)
        ELSE IF a.Fault = "LatencyValues" THEN Returns("QUIC_STATUS_OUT_OF_MEMORY", c4)
        ELSE Returns("QUIC_STATUS_SUCCESS",
                     [c4 EXCEPT !.LatencyValues = [i \in 0 .. (c4.MaxLatencyIndex - 1) |-> 0]])

\* PerfClient::Init: the status returned and the client left behind.
Init(a, cl) ==
    IF a.Help THEN Returns("QUIC_STATUS_INVALID_PARAMETER", cl)
    ELSE IF a.Fault = "Configuration" THEN Returns("CONFIGURATION_INIT_STATUS", cl)
    ELSE IF ~a.Target THEN Returns("QUIC_STATUS_INVALID_PARAMETER", cl)
    ELSE IF a.Fault = "Target" THEN Returns("QUIC_STATUS_OUT_OF_MEMORY", cl)
    ELSE
    LET d  == DecodeHexBuffer(a.Cibir.Hex, CibirIdMax)
        c1 == [cl EXCEPT !.Target = TRUE]
        c2 == IF a.Cibir.Given
              THEN [c1 EXCEPT !.CibirIdLength = d.Length, !.CibirId = <<0>> \o d.Bytes]
              ELSE c1
        c3 == [c2 EXCEPT !.WorkerCount = Opt(a.WorkerCount, a.ProcActiveCount)]
        c4 == IF a.Bind # "absent" THEN [c3 EXCEPT !.SpecificLocalAddresses = TRUE] ELSE c3
        c5 == [c4 EXCEPT !.UseTCP = a.UseTCP, !.UseEncryption = a.UseEncryption,
                         !.PrintLatency = a.PrintLatency]
    IN  IF a.Cibir.Given /\ d.Length = 0 THEN Returns("QUIC_STATUS_INVALID_PARAMETER", c2)
        ELSE IF a.Bind = "invalid" THEN Returns("QUIC_STATUS_INVALID_PARAMETER", c4)
        ELSE InitScenario(a, c5)

\* The option sets Init is called with.  Fault names the one thing the
\* environment lets fail: the Configuration the client was constructed with,
\* or one of the two allocations.  ProcActiveCount is what
\* CxPlatProcActiveCount() returns on the machine, the WorkerCount of a run
\* without -threads and -workers.
CibirOptions ==
    {[Given |-> FALSE, Hex |-> << >>]} \cup
    { [Given |-> TRUE, Hex |-> HexString(n)] :
        n \in {1, 2, 2 * CibirIdMax, 2 * CibirIdMax + 1, 2 * CibirIdMax + 2} }

ProcActiveCounts == {1, 4}

InitArgs ==
    [Help : BOOLEAN, Fault : {"none", "Configuration", "Target", "LatencyValues"},
     Target : BOOLEAN, Cibir : CibirOptions, Bind : {"absent", "valid", "invalid"},
     WorkerCount : {Absent, 2}, ProcActiveCount : ProcActiveCounts,
     UseTCP : BOOLEAN, UseEncryption : BOOLEAN,
     PrintLatency : BOOLEAN, ConnectionCount : {Absent}, StreamCount : {Absent, 2},
     IoSize : {Absent, MinIoSize - 1, MinIoSize}, Upload : {Absent, 8},
     Download : {Absent}, Timed : {FALSE},
     RepeatConnections : BOOLEAN, RepeatStreams : BOOLEAN, RunTime : {Absent, 1000}]

InitInit ==
    /\ Args \in InitArgs
    /\ InitStatus = "none"
    /\ Client = NewClient
    /\ Workers = << >>
    /\ Connections = << >>
    /\ NoRun /\ NoStreams /\ NoExtraData

CallInit ==
    /\ InitStatus = "none"
    /\ LET r == Init(Args, Client)
       IN  Client' = r.client /\ InitStatus' = r.status
    /\ UNCHANGED <<Args, Workers, Connections, runVars, streamVars, ExtraData>>

InitNext == CallInit

SpecInit == InitInit /\ [][InitNext]_vars

(***************************************************************************)
(* Claims checked under SpecInit.                                          *)
(***************************************************************************)
\* The options as Init reads them.
ArgIoSize == Opt(Args.IoSize, DefaultIoSize)
ArgRunTime == Opt(Args.RunTime, 0)
ArgCibirBytes == IF Args.Cibir.Given THEN Len(Args.Cibir.Hex) \div 2 ELSE Absent

\* One of the five conditions the specification lists.
ListedInvalid ==
    \/ ~Args.Target
    \/ ArgCibirBytes > CibirIdMax
    \/ ArgIoSize < MinIoSize
    \/ (Args.RepeatConnections \/ Args.RepeatStreams) /\ ArgRunTime = 0
    \/ Args.UseTCP /\ ~Args.UseEncryption

\* C9 as stated: whenever one of the five listed conditions holds Init returns
\* the invalid-parameter status, and with none of them, a valid bind list and
\* no help flag it does not (nothing fails in the environment).
C9_InvalidParameterAsListed ==
    (InitStatus # "none" /\ Args.Fault = "none") =>
        /\ ListedInvalid => InitStatus = "QUIC_STATUS_INVALID_PARAMETER"
        /\ (~ListedInvalid /\ Args.Bind # "invalid" /\ ~Args.Help)
              => InitStatus # "QUIC_STATUS_INVALID_PARAMETER"

\* C9, amended: with a valid Configuration, Init returns the invalid-parameter
\* status exactly when help is asked for, or the target is missing, or, the
\* copy of the target being allocated, the CIBIR hex string decodes to more
\* than 6 bytes or to no byte at all, or the bind list is invalid, or
\* iosize < 256, or a repeat flag is set while runtime is 0, or tcp is enabled
\* with encrypt disabled.
C9_InvalidParameterExactly ==
    (InitStatus # "none" /\ Args.Fault # "Configuration") =>
        ( InitStatus = "QUIC_STATUS_INVALID_PARAMETER"
          <=> \/ Args.Help
              \/ ~Args.Target
              \/ /\ Args.Fault # "Target"
                 /\ \/ ArgCibirBytes > CibirIdMax
                    \/ ArgCibirBytes = 0
                    \/ Args.Bind = "invalid"
                    \/ ArgIoSize < MinIoSize
                    \/ (Args.RepeatConnections \/ Args.RepeatStreams) /\ ArgRunTime = 0
                    \/ Args.UseTCP /\ ~Args.UseEncryption )

\* C9's case: Init has refused a CIBIR string of one hex digit, every other
\* option being acceptable and none of the five listed conditions holding.
C9_Witness ==
    /\ InitStatus = "QUIC_STATUS_INVALID_PARAMETER"
    /\ Args.Fault = "none" /\ ~Args.Help /\ Args.Target
    /\ Args.Cibir.Given /\ Len(Args.Cibir.Hex) = 1
    /\ ~ListedInvalid
    /\ Args.Bind = "valid"

(***************************************************************************)
(* SpecExtra: GetExtraDataMetadata and GetExtraData after Wait has         *)
(* returned, with the streams of the run ending before, across and after   *)
(* that return.  The members are declared in PerfClient.h: RunTime and     *)
(* CurLatencyIndex take 8 bytes each, as the specification lays the blob   *)
(* out.  Integers are copied byte by byte, least significant byte first.   *)
(***************************************************************************)
MaxSamples == 4

SizeofRunTime == 8
SizeofCurLatencyIndex == 8
\* sizeof of the local uint64_t LatencyCount, and of a sample.
SizeofLatencyCount == 8
SizeofSample == 4

\* What the caller's buffer holds before the call.
BufferFill == 170

\* A byte copied from past the end of LatencyValues.  The read is undefined:
\* the byte can have any value, and the model keeps none for it.
Indeterminate == -1

RECURSIVE ToBytes(_, _)
ToBytes(v, n) == IF n = 0 THEN << >> ELSE <<v % 256>> \o ToBytes(v \div 256, n - 1)

RECURSIVE FromBytes(_)
FromBytes(b) == IF b = << >> THEN 0 ELSE b[1] + 256 * FromBytes(Tail(b))

\* CxPlatCopyMemory(Data + off, bytes, Len(bytes)).
CopyMemory(Data, off, bytes) ==
    [i \in 1 .. Len(Data) |->
        IF i > off /\ i <= off + Len(bytes) THEN bytes[i - off] ELSE Data[i]]

\* The n * sizeof(uint32_t) bytes from LatencyValues.get() on: the slots of
\* the ring, and past them bytes that are not the ring's.
RECURSIVE SampleBytes(_, _)
SampleBytes(cl, n) ==
    IF n = 0 THEN << >>
    ELSE SampleBytes(cl, n - 1) \o
         IF n - 1 < cl.MaxLatencyIndex
         THEN ToBytes(cl.LatencyValues[n - 1], SizeofSample)
         ELSE [j \in 1 .. SizeofSample |-> Indeterminate]

\* PerfClient::GetExtraDataMetadata: Result->ExtraDataLength.
GetExtraDataMetadata(cl) ==
    IF cl.MaxLatencyIndex = 0 THEN 0
    ELSE SizeofRunTime + SizeofCurLatencyIndex + cl.LatencyCount * SizeofSample

\* What a copy that reads past the end of LatencyValues can do: go through,
\* with whatever bytes lie there, or fault.
ExtraUndefined == {"read", "fault"}

\* PerfClient::GetExtraData on a buffer Data of *Length bytes.  A failed
\* CXPLAT_FRE_ASSERT ends the process.  With a count derived from *Length that
\* is above MaxLatencyIndex the copy of line 403 reads past the ring: ub is
\* what that read does.
GetExtraData(cl, Data, Length, ub) ==
    IF cl.MaxLatencyIndex = 0 \/ Length < SizeofRunTime + SizeofCurLatencyIndex
    THEN [status |-> "ASSERT", Data |-> Data]
    ELSE
    LET LatencyCount == (Length - SizeofRunTime - SizeofLatencyCount) \div SizeofSample
        d1 == CopyMemory(Data, 0, ToBytes(cl.RunTime, SizeofRunTime))
        d2 == CopyMemory(d1, SizeofRunTime, ToBytes(LatencyCount, SizeofLatencyCount))
        d3 == CopyMemory(d2, SizeofRunTime + SizeofCurLatencyIndex,
                         SampleBytes(cl, LatencyCount))
    IN  IF LatencyCount > cl.MaxLatencyIndex /\ ub = "fault"
        THEN [status |-> "FAULT", Data |-> d2]
        ELSE [status |-> "QUIC_STATUS_SUCCESS", Data |-> d3]

\* A sample of the blob: indeterminate when one of its bytes is.
SampleOf(b) ==
    IF \E j \in 1 .. Len(b) : b[j] = Indeterminate THEN Indeterminate ELSE FromBytes(b)

\* The reader of the blob: [u64 RunTime][u64 LatencyCount][LatencyCount x u32].
ReadExtraData(Data) ==
    LET Count == FromBytes(SubSeq(Data, 9, 16))
    IN  [RunTime |-> FromBytes(SubSeq(Data, 1, 8)),
         LatencyCount |-> Count,
         Samples |-> [i \in 1 .. Count |-> SampleOf(SubSeq(Data, 13 + 4 * i, 16 + 4 * i))]]

\* The latencies of SpecExtra, in microseconds: 1 or more, so that a slot
\* holds 0 exactly when it was not written.
SampleValues == {300, 16909060}

\* The options of the runs of SpecExtra.  A runtime of 500 ms, and a run
\* without streams, give -plat:1 a ring of no slot.
ExtraArgs ==
    { a \in [Help : {FALSE}, Fault : {"none"}, Target : {TRUE},
             Cibir : {[Given |-> FALSE, Hex |-> << >>]}, Bind : {"absent"},
             WorkerCount : {Absent}, ProcActiveCount : {1},
             UseTCP : {FALSE}, UseEncryption : {TRUE},
             PrintLatency : BOOLEAN, ConnectionCount : {Absent, 2},
             StreamCount : {Absent, 1, 2}, IoSize : {Absent},
             Upload : {Absent}, Download : {Absent}, Timed : {FALSE},
             RepeatConnections : {FALSE}, RepeatStreams : BOOLEAN,
             RunTime : {Absent, 500, 3000}] :
        Init(a, NewClient).status = "QUIC_STATUS_SUCCESS" }

\* LatencyValues[Index] = Latency, clamped (line 894).
StoreSlot(cl, Index, Latency) ==
    [cl EXCEPT !.LatencyValues[Index] =
                   IF Latency > LatencySampleMax THEN LatencySampleMax ELSE Latency]

\* InterlockedIncrement64(&LatencyCount) (line 895).
CountSample(cl) == [cl EXCEPT !.LatencyCount = @ + 1]

\* In SpecExtra Streams holds, for every connection, the finalization its
\* callback thread is in: pc is "idle", "reserved" after the increment of
\* CurLatencyIndex or "stored" after the store; Index and Latency are the
\* locals of OnStreamShutdownComplete; Ended counts the streams of the
\* connection that were finalized.
Finalizer == [pc |-> "idle", Index |-> 0, Latency |-> 0, Ended |-> 0]

\* Init has succeeded; no stream has ended yet.
ExtraInit ==
    /\ Args \in ExtraArgs
    /\ InitStatus = Init(Args, NewClient).status
    /\ Client = Init(Args, NewClient).client
    /\ Streams = [k \in 1 .. Client.ConnectionCount |-> Finalizer]
    /\ Now = 0
    /\ Tcp = NoTcp
    /\ ExtraData = [pc |-> "idle", Length |-> 0, Data |-> << >>]
    /\ Workers = << >>
    /\ Connections = << >>
    /\ NoRun

\* The specification ends with the call of GetExtraData: what the callbacks
\* do after it does not change the blob.
BeforeCall == ExtraData.pc \in {"idle", "sized"}

extraFrame == <<Workers, Connections, Now, Tcp, runVars, optionVars>>

\* A stream of connection k that succeeded is finalized: the increment of
\* CurLatencyIndex (line 891).  The callbacks of one connection are
\* serialized.  Without repeat-streams mode a connection has StreamCount
\* streams; with it the model stops at MaxSamples + 1 streams.
ExtraReserve(k, Latency) ==
    /\ BeforeCall
    /\ Streams[k].pc = "idle"
    /\ IF Client.RepeatStreams
       THEN Client.StreamCount > 0 /\ Client.CurLatencyIndex <= MaxSamples
       ELSE Streams[k].Ended < Client.StreamCount
    /\ Client' = ReserveLatencyIndex(Client)
    /\ Streams' = [Streams EXCEPT ![k] = [@ EXCEPT !.pc = "reserved",
                                                   !.Index = Client.CurLatencyIndex,
                                                   !.Latency = Latency]]
    /\ UNCHANGED <<ExtraData, extraFrame>>

\* The test of the index and the store (lines 892 to 894).
ExtraStore(k) ==
    /\ BeforeCall
    /\ Streams[k].pc = "reserved"
    /\ IF Streams[k].Index < Client.MaxLatencyIndex
       THEN /\ Client' = StoreSlot(Client, Streams[k].Index, Streams[k].Latency)
            /\ Streams' = [Streams EXCEPT ![k] = [@ EXCEPT !.pc = "stored"]]
       ELSE /\ Client' = Client
            /\ Streams' = [Streams EXCEPT ![k] = [Finalizer EXCEPT !.Ended = Streams[k].Ended + 1]]
    /\ UNCHANGED <<ExtraData, extraFrame>>

\* The increment of LatencyCount (line 895) and the rest of the callback.
ExtraCount(k) ==
    /\ BeforeCall
    /\ Streams[k].pc = "stored"
    /\ Client' = CountSample(Client)
    /\ Streams' = [Streams EXCEPT ![k] = [Finalizer EXCEPT !.Ended = Streams[k].Ended + 1]]
    /\ UNCHANGED <<ExtraData, extraFrame>>

\* Wait returns, CompletionEvent being set or the timeout being over,
\* whatever the callbacks of the transport are doing (lines 349 to 358).
ExtraWait ==
    /\ Client.Running
    /\ Client' = [Client EXCEPT !.Running = FALSE]
    /\ UNCHANGED <<Streams, ExtraData, extraFrame>>

\* Wait having returned, the caller asks for the length and allocates the
\* buffer.
CallGetExtraDataMetadata ==
    /\ ~Client.Running
    /\ ExtraData.pc = "idle"
    /\ LET Length == GetExtraDataMetadata(Client)
       IN  ExtraData' = [pc |-> "sized", Length |-> Length,
                         Data |-> [i \in 1 .. Length |-> BufferFill]]
    /\ UNCHANGED <<Client, Streams, extraFrame>>

\* The caller calls GetExtraData: with the buffer it sized, or with a buffer
\* of a length of its own.
CallGetExtraData(Length, ub) ==
    /\ ~Client.Running
    /\ \/ ExtraData.pc = "sized" /\ Length = ExtraData.Length
       \/ ExtraData.pc = "idle"
    /\ LET r == GetExtraData(Client, [i \in 1 .. Length |-> BufferFill], Length, ub)
       IN  ExtraData' = [pc |-> CASE r.status = "ASSERT" -> "abort"
                                  [] r.status = "FAULT" -> "fault"
                                  [] OTHER -> "done",
                         Length |-> Length, Data |-> r.Data]
    /\ UNCHANGED <<Client, Streams, extraFrame>>

\* The lengths of the caller's buffers: too short for the header, and the
\* header with up to MaxSamples + 1 samples, one more than the largest ring
\* of SpecExtra holds, exactly or with 3 bytes over.
ExtraLengths ==
    {0, SizeofRunTime + SizeofCurLatencyIndex - 1} \cup
    { SizeofRunTime + SizeofCurLatencyIndex + k * SizeofSample + over :
        k \in 0 .. (MaxSamples + 1), over \in {0, SizeofSample - 1} }

ExtraNext ==
    \/ \E k \in 1 .. Len(Streams) : \E Latency \in SampleValues : ExtraReserve(k, Latency)
    \/ \E k \in 1 .. Len(Streams) : ExtraStore(k)
    \/ \E k \in 1 .. Len(Streams) : ExtraCount(k)
    \/ ExtraWait
    \/ CallGetExtraDataMetadata
    \/ \E Length \in ExtraLengths : \E ub \in ExtraUndefined :
          CallGetExtraData(Length, ub)

SpecExtra == ExtraInit /\ [][ExtraNext]_vars

(***************************************************************************)
(* Claims checked under SpecExtra.                                         *)
(***************************************************************************)
\* The samples recorded in the ring, in slot order.
Recorded(cl) ==
    SelectSeq([i \in 1 .. cl.MaxLatencyIndex |-> cl.LatencyValues[i - 1]],
              LAMBDA v : v # 0)

\* C10: after GetExtraData with *Length = 16 + 4k, k not above the number of
\* recorded samples, the first 8 bytes of the blob are RunTime, the next 8 the
\* count k, the rest the first k recorded samples in slot order; reading the
\* blob back yields RunTime, k and those samples.
C10_ExtraDataRoundTrip ==
    \A k \in 0 .. MaxSamples :
        ( /\ ExtraData.pc = "done"
          /\ ExtraData.Length = 16 + 4 * k
          /\ k <= Client.LatencyCount )
        => /\ Len(ExtraData.Data) = 16 + 4 * k
           /\ SubSeq(ExtraData.Data, 1, 8) = ToBytes(Client.RunTime, 8)
           /\ SubSeq(ExtraData.Data, 9, 16) = ToBytes(k, 8)
           /\ LET r == ReadExtraData(ExtraData.Data)
              IN  /\ r.RunTime = Client.RunTime
                  /\ r.LatencyCount = k
                  /\ r.Samples = SubSeq(Recorded(Client), 1, k)

(***************************************************************************)
(* PerfClientStream (QUIC).  A stream's record holds the members of the    *)
(* class and the transport's view of the stream:                           *)
(*   Sends        the StreamSend calls that still owe their SEND_COMPLETE  *)
(*   SendClosed   SEND_SHUTDOWN_COMPLETE was delivered                     *)
(*   SendAborted  the send direction was aborted (by either side)          *)
(*   RecvClosed   the receive direction ended (FIN or abort)               *)
(*   pc           "open"; "reserved" between the increment of              *)
(*                CurLatencyIndex and the rest of                          *)
(*                OnStreamShutdownComplete; "freed"                        *)
(*   Index        the latency index the stream reserved                    *)
(*   Succeeded    history: SendSuccess && RecvSuccess held at the end      *)
(*   BytesCanceled history: the bytes of the sends completed as canceled   *)
(* The constructor (PerfClient.h) stamps StartTime and sets                *)
(* IdealSendBuffer to IoSize.                                              *)
(***************************************************************************)
NewStream(cl, k, now) ==
    [Conn |-> k, StartTime |-> now, SendEndTime |-> 0, RecvStartTime |-> 0,
     RecvEndTime |-> 0, BytesSent |-> 0, BytesOutstanding |-> 0, BytesAcked |-> 0,
     BytesReceived |-> 0, IdealSendBuffer |-> cl.IoSize, SendComplete |-> FALSE,
     Sends |-> << >>, SendClosed |-> FALSE, SendAborted |-> FALSE,
     RecvClosed |-> FALSE, pc |-> "open", Index |-> 0, Succeeded |-> FALSE,
     BytesCanceled |-> 0]

MS_TO_US(ms) == ms * 1000

\* CxPlatTimeUs64() within one callback: `clock` holds the readings the calls
\* return, in order; it is not empty, it does not decrease, and it stays at
\* its last reading.  Rest is the clock after one call, After after n calls.
Rest(clock) == IF Len(clock) > 1 THEN Tail(clock) ELSE clock

RECURSIVE After(_, _)
After(clock, n) == IF n = 0 THEN clock ELSE After(Rest(clock), n - 1)

\* Send without the shrink of the last buffer to BytesLeftToSend.
RECURSIVE Send_NoShrink(_, _, _)
Send_NoShrink(cl, s, clock) ==
    IF s.SendComplete \/ s.BytesOutstanding >= s.IdealSendBuffer THEN s
    ELSE
    LET BytesLeftToSend == IF cl.Upload # 0 THEN cl.Upload - s.BytesSent ELSE 8
        Fin == ~cl.Timed /\ cl.IoSize >= BytesLeftToSend
    IN  Send_NoShrink(cl,
             [s EXCEPT !.SendComplete = Fin,
                       !.BytesSent = @ + cl.IoSize,
                       !.BytesOutstanding = @ + cl.IoSize,
                       !.Sends = Append(@, [Length |-> cl.IoSize, Fin |-> Fin])],
             clock)

\* PerfClientStream::Send.  BytesLeftToSend is UINT64_MAX in timed mode, more
\* than any IoSize, and every iteration of the loop then reads the clock anew.
RECURSIVE Send(_, _, _)
Send(cl, s, clock) ==
    IF s.SendComplete \/ s.BytesOutstanding >= s.IdealSendBuffer THEN s
    ELSE
    LET BytesLeftToSend == IF cl.Upload # 0 THEN cl.Upload - s.BytesSent ELSE 8
        Last == ~cl.Timed /\ cl.IoSize >= BytesLeftToSend
        DataLength == IF Last THEN BytesLeftToSend ELSE cl.IoSize
        Fin == Last \/ (cl.Timed /\ Head(clock) - s.StartTime >= MS_TO_US(cl.Upload))
    IN  Send(cl,
             [s EXCEPT !.SendComplete = Fin,
                       !.BytesSent = @ + DataLength,
                       !.BytesOutstanding = @ + DataLength,
                       !.Sends = Append(@, [Length |-> DataLength, Fin |-> Fin])],
             IF cl.Timed THEN Rest(clock) ELSE clock)

\* The calls of CxPlatTimeUs64() a call of Send has made that took the stream
\* from s0 to s1: one for every send of a timed run.
SendReads(cl, s0, s1) == IF cl.Timed THEN Len(s1.Sends) - Len(s0.Sends) ELSE 0

\* BytesOutstanding is a uint64_t: a subtraction below 0 wraps.  TLC's integers
\* have 32 bits, so the model wraps at 2^30 in place of 2^64: a wrapped counter
\* is above every IdealSendBuffer either way.
UINT64_SPAN == 1073741824

\* OnSendComplete crediting a canceled completion like any other.
OnSendComplete_CreditsCanceled(cl, s, Length, Canceled, clock) ==
    LET s1 == [s EXCEPT !.BytesOutstanding = (@ - Length) % UINT64_SPAN]
    IN  Send(cl, [s1 EXCEPT !.BytesAcked = @ + Length], clock)

\* PerfClientStream::OnSendComplete.
OnSendComplete(cl, s, Length, Canceled, clock) ==
    LET s1 == [s EXCEPT !.BytesOutstanding = (@ - Length) % UINT64_SPAN]
    IN  IF Canceled THEN s1
        ELSE Send(cl, [s1 EXCEPT !.BytesAcked = @ + Length], clock)

\* PerfClientStream::OnReceive (QUIC): in timed mode the receive direction is
\* aborted once Download milliseconds have passed since the first receive.
OnReceive(cl, s, Length, Finished, now) ==
    LET s1 == [s EXCEPT !.BytesReceived = @ + Length,
                        !.RecvStartTime = IF @ = 0 THEN now ELSE @]
        s2 == IF Finished THEN [s1 EXCEPT !.RecvEndTime = now] ELSE s1
    IN  IF cl.Timed /\ now - s2.RecvStartTime >= MS_TO_US(cl.Download)
        THEN [s2 EXCEPT !.RecvEndTime = now, !.RecvClosed = TRUE]
        ELSE s2

\* StreamCallback taking every ideal send buffer size it is told, without the
\* tests of Upload, of send buffering and of a change.
StreamCallback_IdealUntested(cl, s, Event, clock) ==
    CASE Event.Type = "SEND_COMPLETE" ->
            OnSendComplete(cl, s, Event.Length, Event.Canceled, clock)
      [] Event.Type = "IDEAL_SEND_BUFFER_SIZE" ->
            Send(cl, [s EXCEPT !.IdealSendBuffer = Event.ByteCount], clock)
      [] OTHER -> s

\* PerfClientStream::StreamCallback for the events that do not end the stream.
\* But for Send, a handler reads the clock at most once.
StreamCallback(cl, s, Event, clock) ==
    CASE Event.Type = "RECEIVE" ->
            OnReceive(cl, s, Event.Length, Event.Fin, Head(clock))
      [] Event.Type = "SEND_COMPLETE" ->
            OnSendComplete(cl, s, Event.Length, Event.Canceled, clock)
      [] Event.Type = "PEER_SEND_ABORTED" ->
            [s EXCEPT !.RecvEndTime = IF @ = 0 THEN Head(clock) ELSE @,
                      !.RecvClosed = TRUE, !.SendAborted = TRUE]
      [] Event.Type = "PEER_RECEIVE_ABORTED" ->
            [s EXCEPT !.SendEndTime = IF @ = 0 THEN Head(clock) ELSE @,
                      !.SendAborted = TRUE, !.SendComplete = TRUE]
      [] Event.Type = "SEND_SHUTDOWN_COMPLETE" ->
            [s EXCEPT !.SendEndTime = Head(clock)]
      [] Event.Type = "IDEAL_SEND_BUFFER_SIZE" ->
            IF cl.Upload # 0 /\ ~cl.UseSendBuffering /\ s.IdealSendBuffer # Event.ByteCount
            THEN Send(cl, [s EXCEPT !.IdealSendBuffer = Event.ByteCount], clock)
            ELSE s
      [] OTHER -> s

\* SendSuccess without the test of BytesAcked against sizeof(uint64_t).
SendSuccess_NoMinimum(cl, s) ==
    IF cl.Upload # 0 /\ ~cl.Timed /\ s.BytesAcked < cl.Upload
    THEN FALSE
    ELSE s.SendEndTime # 0

\* SendSuccess and RecvSuccess as OnStreamShutdownComplete computes them.
SendSuccess(cl, s) ==
    IF cl.Upload # 0 /\ (s.BytesAcked < 8 \/ (~cl.Timed /\ s.BytesAcked < cl.Upload))
    THEN FALSE
    ELSE s.SendEndTime # 0

RecvSuccess(cl, s) ==
    IF cl.Download # 0 /\ (s.BytesReceived = 0 \/ (~cl.Timed /\ s.BytesReceived < cl.Download))
    THEN FALSE
    ELSE s.RecvStartTime # 0 /\ s.RecvEndTime # 0

\* CxPlatTimeDiff64(StartTime, RecvEndTime).
StreamLatency(s) == s.RecvEndTime - s.StartTime

(***************************************************************************)
(* SpecStream: one connection carrying one stream at a time, from the      *)
(* CONNECTED event to the ConnectionShutdown after the last stream; with   *)
(* RepeatStreams every finalized stream is followed by a new one.          *)
(***************************************************************************)
MaxStreams == 3
MaxTicks == 1
MaxTimedSends == 2
TickUs == 300000
IdealBytes == 512

StreamArgs ==
    { a \in [Help : {FALSE}, Fault : {"none"}, Target : {TRUE},
             Cibir : {[Given |-> FALSE, Hex |-> << >>]}, Bind : {"absent"},
             WorkerCount : {Absent}, ProcActiveCount : {1},
             UseTCP : {FALSE}, UseEncryption : {TRUE},
             PrintLatency : BOOLEAN, ConnectionCount : {Absent},
             StreamCount : {1}, IoSize : {MinIoSize},
             Upload : {Absent, 4, 300}, Download : {Absent, 100}, Timed : BOOLEAN,
             RepeatConnections : {FALSE}, RepeatStreams : BOOLEAN,
             RunTime : {Absent, 1000}] :
        a.RepeatStreams <=> a.RunTime # Absent }

\* Init has succeeded, Start has queued the connections and the worker has
\* created them; no callback has run yet.
StreamInit ==
    /\ Args \in StreamArgs
    /\ InitStatus = Init(Args, NewClient).status
    /\ Client = Init(Args, NewClient).client
    /\ Workers = [w \in {0} |->
                    [NewWorker EXCEPT !.ConnectionsQueued = Client.ConnectionCount,
                                      !.ConnectionsCreated = Client.ConnectionCount,
                                      !.ConnectionsActive = Client.ConnectionCount]]
    /\ Connections = [w \in {0} |-> [k \in 1 .. Client.ConnectionCount |-> NewConnection(0)]]
    /\ Streams = << >>
    /\ Now = 1
    /\ Tcp = NoTcp
    /\ StartIndex = Client.ConnectionCount
    /\ WaitThread = [pc |-> "wait", Timeout |-> 0, i |-> 0]
    /\ CompletionEvent = FALSE
    /\ SignalCount = 0
    /\ InducedFailure = FALSE
    /\ NoExtraData

StreamIds == 1 .. Len(Streams)

\* A callback of connection k is inside OnStreamShutdownComplete.
Busy(k) == \E j \in StreamIds : Streams[j].Conn = k /\ Streams[j].pc = "reserved"

\* The n streams StartNewStream has just opened on connection k, each after
\* its first Send.
RECURSIVE StartedStreams(_, _, _)
StartedStreams(k, n, clock) ==
    IF n = 0 THEN << >>
    ELSE LET s0 == NewStream(Client, k, Head(clock))
             s1 == Send(Client, s0, Rest(clock))
         IN  <<s1>> \o StartedStreams(k, n - 1,
                                      After(Rest(clock), SendReads(Client, s0, s1)))

\* The clocks of a callback that starts at Now.  Only a timed run reads the
\* clock more than once in a callback; the time that passes between two
\* readings is none or TickUs.
LastReading(clock) == clock[Len(clock)]

Clocks ==
    {<<Now>>} \cup
    IF Client.Timed /\ Now < 1 + MaxTicks * TickUs
    THEN {<<Now, Now + TickUs>>, <<Now, Now, Now + TickUs>>}
    ELSE {}

Tick ==
    /\ Now < 1 + MaxTicks * TickUs
    /\ Now' = Now + TickUs
    /\ UNCHANGED <<Client, Workers, Connections, Streams, Tcp, runVars, optionVars, ExtraData>>

\* QUIC_CONNECTION_EVENT_CONNECTED on connection k: OnConnectionComplete
\* starts the streams.
StreamsConnected(k) ==
    /\ Connections[0][k].State = "started"
    /\ LET r == ConnectionCallback(CW(0, k), "CONNECTED", 0)
       IN  /\ Connections' = [Connections EXCEPT ![0][k] = r.conn]
           /\ Workers' = [Workers EXCEPT ![0] = r.wk]
           /\ \E clock \in Clocks :
                 /\ Streams' = Streams \o
                        StartedStreams(k, r.wk.StreamsStarted - Workers[0].StreamsStarted,
                                       clock)
                 /\ Now' = LastReading(clock)
    /\ UNCHANGED <<Client, Tcp, runVars, optionVars, ExtraData>>

\* The event is delivered to stream i, which stays open.
DeliverStream(i, Event, s1) ==
    /\ Streams[i].pc = "open"
    /\ ~Busy(Streams[i].Conn)
    /\ \E clock \in Clocks :
          /\ Streams' = [Streams EXCEPT ![i] = StreamCallback(Client, s1, Event, clock)]
          /\ Now' = LastReading(clock)
    /\ UNCHANGED <<Client, Workers, Connections, Tcp, runVars, optionVars, ExtraData>>

\* The most the peer sends on a stream.
MaxReceive == IF Client.Timed THEN 100 ELSE Client.Download

QuicStreamReceive(i, Length, Fin) ==
    /\ ~Streams[i].RecvClosed
    /\ Length > 0 \/ Fin
    /\ Streams[i].BytesReceived + Length <= MaxReceive
    /\ DeliverStream(i, [Type |-> "RECEIVE", Length |-> Length, Fin |-> Fin],
                     [Streams[i] EXCEPT !.RecvClosed = Fin])

\* A timed stream sends until its time is over: the model stops it at
\* MaxTimedSends sends.
QuicStreamSendComplete(i, Canceled) ==
    /\ Streams[i].Sends # << >>
    /\ Canceled => Streams[i].SendAborted
    /\ (Client.Timed /\ ~Canceled /\ ~Streams[i].SendComplete)
          => Streams[i].BytesSent < MaxTimedSends * Client.IoSize
    /\ DeliverStream(i, [Type |-> "SEND_COMPLETE", Length |-> Head(Streams[i].Sends).Length,
                         Canceled |-> Canceled],
                     [Streams[i] EXCEPT
                         !.Sends = Tail(@),
                         !.BytesCanceled = IF Canceled THEN @ + Head(Streams[i].Sends).Length
                                           ELSE @])

QuicStreamPeerSendAborted(i) ==
    /\ ~Streams[i].RecvClosed
    /\ DeliverStream(i, [Type |-> "PEER_SEND_ABORTED"], Streams[i])

QuicStreamPeerReceiveAborted(i) ==
    /\ ~Streams[i].SendClosed /\ ~Streams[i].SendAborted
    /\ DeliverStream(i, [Type |-> "PEER_RECEIVE_ABORTED"], Streams[i])

QuicStreamSendShutdownComplete(i) ==
    /\ ~Streams[i].SendClosed
    /\ \/ Streams[i].SendComplete /\ Streams[i].Sends = << >>
       \/ Streams[i].SendAborted
    /\ DeliverStream(i, [Type |-> "SEND_SHUTDOWN_COMPLETE"],
                     [Streams[i] EXCEPT !.SendClosed = TRUE])

QuicStreamIdealSendBufferSize(i) ==
    /\ ~Streams[i].SendClosed /\ ~Streams[i].SendAborted
    /\ Streams[i].IdealSendBuffer # IdealBytes
    /\ DeliverStream(i, [Type |-> "IDEAL_SEND_BUFFER_SIZE", ByteCount |-> IdealBytes],
                     Streams[i])

\* Worker.StreamAllocator.Free(this): of a freed stream the model keeps its
\* connection, whether it succeeded and the index it reserved.
FreedStream(s, Success) ==
    [NewStream(Client, s.Conn, 0) EXCEPT !.pc = "freed", !.Index = s.Index,
                                         !.IdealSendBuffer = 0, !.Succeeded = Success]

\* The rest of OnStreamShutdownComplete for stream i, the ring being `cl`.
FinishStreamOf(i, cl, Success) ==
    LET k == Streams[i].Conn
        r == FinishStream(CW(0, k), Success, 0)
    IN  /\ Client' = cl
        /\ Connections' = [Connections EXCEPT ![0][k] = r.conn]
        /\ Workers' = [Workers EXCEPT ![0] = r.wk]
        /\ \E clock \in Clocks :
              /\ Streams' = [Streams EXCEPT ![i] = FreedStream(@, Success)] \o
                     StartedStreams(k, r.wk.StreamsStarted - Workers[0].StreamsStarted,
                                    clock)
              /\ Now' = LastReading(clock)

\* QUIC_STREAM_EVENT_SHUTDOWN_COMPLETE on stream i: OnStreamShutdownComplete
\* up to and including the increment of CurLatencyIndex, or all of it when the
\* stream did not succeed.  The transport delivers the event when both
\* directions are closed, or at any moment when it gives the stream up.  In
\* repeat mode the model stops at MaxStreams streams.
QuicStreamShutdownComplete(i) ==
    /\ Streams[i].pc = "open"
    /\ ~Busy(Streams[i].Conn)
    /\ Client.RepeatStreams => Len(Streams) < MaxStreams
    /\ IF SendSuccess(Client, Streams[i]) /\ RecvSuccess(Client, Streams[i])
       THEN /\ Client' = ReserveLatencyIndex(Client)
            /\ Streams' = [Streams EXCEPT ![i].pc = "reserved",
                                          ![i].Index = Client.CurLatencyIndex]
            /\ UNCHANGED <<Workers, Connections, Now>>
       ELSE FinishStreamOf(i, Client, FALSE)
    /\ UNCHANGED <<Tcp, runVars, optionVars, ExtraData>>

\* OnStreamShutdownComplete of a stream that succeeded, after the increment
\* of CurLatencyIndex.
StreamFinish(i) ==
    /\ Streams[i].pc = "reserved"
    /\ FinishStreamOf(i, StoreLatency(Client, Streams[i].Index, StreamLatency(Streams[i])),
                      TRUE)
    /\ UNCHANGED <<Tcp, runVars, optionVars, ExtraData>>

StreamNext ==
    \/ Tick
    \/ \E k \in ConnIdsOf(0) : StreamsConnected(k)
    \/ \E i \in StreamIds : \E Length \in {0, 50} : \E Fin \in BOOLEAN :
          QuicStreamReceive(i, Length, Fin)
    \/ \E i \in StreamIds : \E Canceled \in BOOLEAN : QuicStreamSendComplete(i, Canceled)
    \/ \E i \in StreamIds : QuicStreamPeerSendAborted(i)
    \/ \E i \in StreamIds : QuicStreamPeerReceiveAborted(i)
    \/ \E i \in StreamIds : QuicStreamSendShutdownComplete(i)
    \/ \E i \in StreamIds : QuicStreamIdealSendBufferSize(i)
    \/ \E i \in StreamIds : QuicStreamShutdownComplete(i)
    \/ \E i \in StreamIds : StreamFinish(i)

SpecStream == StreamInit /\ [][StreamNext]_vars

(***************************************************************************)
(* Claims checked under SpecStream.                                        *)
(***************************************************************************)
\* SendSuccess and RecvSuccess as the specification words them.
StatedSendSuccess(s) ==
    /\ s.SendEndTime # 0
    /\ Client.Upload # 0 =>
          /\ s.BytesAcked >= 8
          /\ ~Client.Timed => s.BytesAcked >= Client.Upload

StatedRecvSuccess(s) ==
    /\ s.RecvStartTime # 0 /\ s.RecvEndTime # 0
    /\ Client.Download # 0 =>
          /\ s.BytesReceived > 0
          /\ ~Client.Timed => s.BytesReceived >= Client.Download

StatedSuccess(s) == StatedSendSuccess(s) /\ StatedRecvSuccess(s)

RingUnchanged ==
    /\ Client'.LatencyCount = Client.LatencyCount
    /\ Client'.LatencyValues = Client.LatencyValues

\* The sample OnStreamShutdownComplete stores for stream s.
StoredSample(s) ==
    IF s.RecvEndTime - s.StartTime > LatencySampleMax THEN LatencySampleMax
    ELSE s.RecvEndTime - s.StartTime

\* C4 as stated: a step that takes a stream to its end stores a latency
\* sample and increments StreamsCompleted if and only if SendSuccess and
\* RecvSuccess hold; a stream that ends without success leaves
\* CurLatencyIndex, LatencyCount, LatencyValues and StreamsCompleted alone.
C4_SampleIffSuccess ==
    [][ \A i \in StreamIds :
          (Streams[i].pc # "freed" /\ Streams'[i].pc = "freed") =>
             /\ ( /\ Client'.LatencyCount = Client.LatencyCount + 1
                  /\ Workers'[0].StreamsCompleted = Workers[0].StreamsCompleted + 1 )
                <=> StatedSuccess(Streams[i])
             /\ ~StatedSuccess(Streams[i]) =>
                  /\ RingUnchanged
                  /\ Client'.CurLatencyIndex = Client.CurLatencyIndex
                  /\ Workers'[0].StreamsCompleted = Workers[0].StreamsCompleted ]_vars

\* C4, amended: a stream that ends reserves a latency index (CurLatencyIndex
\* incremented) and increments StreamsCompleted if and only if SendSuccess and
\* RecvSuccess hold; its sample is stored in the slot of that index, and
\* LatencyCount incremented, if and only if moreover the index is below
\* MaxLatencyIndex; a stream that ends without success leaves CurLatencyIndex,
\* LatencyCount, LatencyValues and StreamsCompleted alone.
C4_CountedIffSuccess ==
    [][ \A i \in StreamIds :
          /\ (Streams[i].pc = "open" /\ Streams'[i].pc = "reserved") =>
                /\ StatedSuccess(Streams[i])
                /\ Streams'[i].Index = Client.CurLatencyIndex
                /\ Client'.CurLatencyIndex = Client.CurLatencyIndex + 1
                /\ RingUnchanged
                /\ Workers'[0].StreamsCompleted = Workers[0].StreamsCompleted
          /\ (Streams[i].pc = "reserved" /\ Streams'[i].pc = "freed") =>
                /\ Workers'[0].StreamsCompleted = Workers[0].StreamsCompleted + 1
                /\ Client'.CurLatencyIndex = Client.CurLatencyIndex
                /\ IF Streams[i].Index < Client.MaxLatencyIndex
                   THEN /\ Client'.LatencyCount = Client.LatencyCount + 1
                        /\ Client'.LatencyValues =
                              [Client.LatencyValues EXCEPT
                                  ![Streams[i].Index] = StoredSample(Streams[i])]
                   ELSE RingUnchanged
          /\ (Streams[i].pc = "open" /\ Streams'[i].pc = "freed") =>
                /\ ~StatedSuccess(Streams[i])
                /\ RingUnchanged
                /\ Client'.CurLatencyIndex = Client.CurLatencyIndex
                /\ Workers'[0].StreamsCompleted = Workers[0].StreamsCompleted ]_vars

\* C4's case: two streams have ended with success; the first stored a sample
\* that is not 0, the second reserved an index past the ring and stored none.
C4_Witness ==
    /\ Len(Streams) >= 2
    /\ Streams[1].pc = "freed" /\ Streams[1].Succeeded
    /\ Streams[2].pc = "freed" /\ Streams[2].Succeeded
    /\ Client.MaxLatencyIndex = 1
    /\ Client.CurLatencyIndex = 2
    /\ Client.LatencyCount = 1
    /\ Client.LatencyValues[0] = TickUs
    /\ Workers[0].StreamsCompleted = 2

\* The four timestamps of a stream.
Timestamps == {"StartTime", "SendEndTime", "RecvStartTime", "RecvEndTime"}

\* C14: each timestamp of a stream is written at most once: a timestamp that
\* is not 0 keeps its value through every later event of the stream.
C14_TimestampsWrittenOnce ==
    [][ \A i \in StreamIds :
            (Streams[i].pc = "open" /\ Streams'[i].pc = "open") =>
                \A t \in Timestamps :
                    Streams[i][t] # 0 => Streams'[i][t] = Streams[i][t] ]_vars

(***************************************************************************)
(* SpecRing: several connections of one worker, each with one stream whose *)
(* exchange is over, and their OnStreamShutdownComplete running            *)
(* concurrently: the callbacks of different connections interleave between *)
(* the increment of CurLatencyIndex and the store.                         *)
(***************************************************************************)
MaxFinalizers == 3

RingArgs ==
    [Help : {FALSE}, Fault : {"none"}, Target : {TRUE},
     Cibir : {[Given |-> FALSE, Hex |-> << >>]}, Bind : {"absent"},
     WorkerCount : {Absent}, ProcActiveCount : {1},
     UseTCP : {FALSE}, UseEncryption : {TRUE},
     PrintLatency : BOOLEAN, ConnectionCount : 1 .. MaxFinalizers,
     StreamCount : {1}, IoSize : {MinIoSize}, Upload : {Absent}, Download : {Absent},
     Timed : {FALSE}, RepeatConnections : {FALSE}, RepeatStreams : {FALSE},
     RunTime : {Absent, 1000}]

\* How the exchange of a stream went: whether SEND_SHUTDOWN_COMPLETE came,
\* whether the response came, and when.
Exchanges == [Sent : BOOLEAN, Received : BOOLEAN, At : {1, 1 + TickUs}]

\* The stream of connection k after the callbacks of exchange e.
ExchangedStream(k, e) ==
    LET s0 == Send(Client, NewStream(Client, k, 1), <<1>>)
        s1 == StreamCallback(Client, [s0 EXCEPT !.Sends = Tail(@)],
                  [Type |-> "SEND_COMPLETE", Length |-> Head(s0.Sends).Length,
                   Canceled |-> FALSE], <<1>>)
        s2 == IF e.Sent
              THEN StreamCallback(Client, [s1 EXCEPT !.SendClosed = TRUE],
                       [Type |-> "SEND_SHUTDOWN_COMPLETE"], <<1>>)
              ELSE s1
    IN  IF e.Received
        THEN StreamCallback(Client, [s2 EXCEPT !.RecvClosed = TRUE],
                 [Type |-> "RECEIVE", Length |-> 0, Fin |-> TRUE], <<e.At>>)
        ELSE s2

\* The worker and its first n connections after their CONNECTED events.
RECURSIVE ConnectedWorker(_)
ConnectedWorker(n) ==
    IF n = 0
    THEN [wk |-> [NewWorker EXCEPT !.ConnectionsQueued = Client.ConnectionCount,
                                   !.ConnectionsCreated = Client.ConnectionCount,
                                   !.ConnectionsActive = Client.ConnectionCount],
          conns |-> << >>]
    ELSE LET p == ConnectedWorker(n - 1)
             r == ConnectionCallback([conn |-> NewConnection(0), wk |-> p.wk], "CONNECTED", 0)
         IN  [wk |-> r.wk, conns |-> Append(p.conns, r.conn)]

RingInit ==
    /\ Args \in RingArgs
    /\ InitStatus = Init(Args, NewClient).status
    /\ Client = Init(Args, NewClient).client
    /\ Workers = [w \in {0} |-> ConnectedWorker(Client.ConnectionCount).wk]
    /\ Connections = [w \in {0} |-> ConnectedWorker(Client.ConnectionCount).conns]
    /\ \E e \in [1 .. Client.ConnectionCount -> Exchanges] :
          Streams = [k \in 1 .. Client.ConnectionCount |-> ExchangedStream(k, e[k])]
    /\ Now = 1 + TickUs
    /\ Tcp = NoTcp
    /\ StartIndex = Client.ConnectionCount
    /\ WaitThread = [pc |-> "wait", Timeout |-> 0, i |-> 0]
    /\ CompletionEvent = FALSE
    /\ SignalCount = 0
    /\ InducedFailure = FALSE
    /\ NoExtraData

RingNext ==
    \/ \E i \in StreamIds : QuicStreamShutdownComplete(i)
    \/ \E i \in StreamIds : StreamFinish(i)

SpecRing == RingInit /\ [][RingNext]_vars

(***************************************************************************)
(* Claims checked under SpecRing.                                          *)
(***************************************************************************)
Min(a, b) == IF a < b THEN a ELSE b

SucceededStreams == { i \in StreamIds : Streams[i].pc = "freed" /\ Streams[i].Succeeded }

\* C5: CurLatencyIndex never decreases; in every state LatencyCount is at most
\* min(CurLatencyIndex, MaxLatencyIndex); and whenever no
\* OnStreamShutdownComplete is under way, at the end of a run in particular,
\* LatencyCount is min(number of streams that ended with SendSuccess and
\* RecvSuccess, MaxLatencyIndex).
C5_LatencyCountBounded ==
    /\ [](/\ Client.LatencyCount <= Min(Client.CurLatencyIndex, Client.MaxLatencyIndex)
          /\ (\A i \in StreamIds : Streams[i].pc # "reserved") =>
                Client.LatencyCount =
                    Min(Cardinality(SucceededStreams), Client.MaxLatencyIndex))
    /\ [][Client'.CurLatencyIndex >= Client.CurLatencyIndex]_vars

\* C5's case: three streams have ended with success, two of them past the
\* ring of one slot.
C5_Witness ==
    /\ Cardinality(SucceededStreams) = 3
    /\ Client.MaxLatencyIndex = 1
    /\ Client.CurLatencyIndex = 3
    /\ Client.LatencyCount = 1

\* The streams that have reserved a latency index.
Reserved == { i \in StreamIds : Streams[i].pc = "reserved" \/ Streams[i].Succeeded }

\* The streams that are writing in the step: past the reservation before it,
\* freed after it.
Writers == { i \in StreamIds : Streams[i].pc = "reserved" /\ Streams'[i].pc = "freed" }

\* C23: however the finalizations interleave, no two streams hold the same
\* latency index, a step writes no slot but the one its stream reserved, and
\* none at MaxLatencyIndex or beyond: a stream that reserved such an index
\* writes nothing and leaves LatencyCount alone, and with MaxLatencyIndex 0
\* the ring stays empty.
C23_OwnSlotBelowCapacity ==
    /\ [](/\ \A i, j \in Reserved : i # j => Streams[i].Index # Streams[j].Index
          /\ DOMAIN Client.LatencyValues = 0 .. (Client.MaxLatencyIndex - 1))
    /\ [][ /\ \A n \in DOMAIN Client.LatencyValues :
                Client'.LatencyValues[n] # Client.LatencyValues[n] =>
                    \E i \in Writers : Streams[i].Index = n
           /\ \A i \in Writers :
                Client'.LatencyCount =
                    Client.LatencyCount
                        + (IF Streams[i].Index < Client.MaxLatencyIndex THEN 1 ELSE 0) ]_vars

\* C23's case: three streams were past their reservations at the same time
\* and have written in another order than they reserved: each has its own
\* slot of a ring of three.
C23_Witness ==
    /\ Client.MaxLatencyIndex = 3
    /\ Len(Streams) = 3
    /\ \A i \in StreamIds : Streams[i].pc = "freed" /\ Streams[i].Succeeded
    /\ Streams[1].Index = 2 /\ Streams[2].Index = 0 /\ Streams[3].Index = 1
    /\ Client.LatencyCount = 3
    /\ \A n \in 0 .. 2 : Client.LatencyValues[n] = TickUs

\* A stream that is not yet past its reservation will succeed with a latency
\* of 1 microsecond or more, one that is past it has such a latency, and one
\* that is finalized succeeded and wrote a sample that is not 0.
SucceedsWithLatency(i) ==
    LET s == Streams[i]
    IN  CASE s.pc = "open" ->
                SendSuccess(Client, s) /\ RecvSuccess(Client, s) /\ StreamLatency(s) >= 1
          [] s.pc = "reserved" -> StreamLatency(s) >= 1
          [] OTHER ->
                /\ s.Succeeded
                /\ s.Index < Client.MaxLatencyIndex => Client.LatencyValues[s.Index] # 0

\* C24: when all streams succeed, each with a latency of 1 microsecond or
\* more, LatencyValues[0 .. LatencyCount) holds no 0, whatever value of
\* LatencyCount is observed while finalizations are under way.
C24_NoZeroBelowLatencyCount ==
    (\A i \in StreamIds : SucceedsWithLatency(i)) =>
        \A n \in 0 .. (Client.LatencyCount - 1) : Client.LatencyValues[n] # 0

(***************************************************************************)
(* SpecWait: the threads.  Start queues, every worker thread runs          *)
(* WorkerThread one test or call at a time, the transport completes        *)
(* connections one access to the counters at a time, and the main thread  *)
(* runs Wait.  A connection is kept until it is freed.                     *)
(* PerfClientWorker::Uninitialize and the event are defined outside        *)
(* PerfClient.cpp: Uninitialize sets WakeEvent and joins the thread;       *)
(* WakeEvent resets when a wait on it returns.                             *)
(*                                                                         *)
(* No test of WorkerThread, OnConnectionComplete or Wait reads a counter   *)
(* but through the differences ConnectionsQueued - ConnectionsCreated and  *)
(* ConnectionsActive, so the model keeps the counters of a worker relative *)
(* to its ConnectionsCompleted (Rebase), and with them the operand a       *)
(* thread inside OnConnectionComplete has read: a run that goes on forever *)
(* then comes back to a state it has been in.                              *)
(***************************************************************************)
MaxWaitWorkers == 2
MaxWaitConnections == 2
MaxTransportThreads == 2
WaitTimeouts == {0, 5}

Rebase(wk) ==
    [wk EXCEPT !.ConnectionsQueued = @ - wk.ConnectionsCompleted,
               !.ConnectionsCreated = @ - wk.ConnectionsCompleted,
               !.ConnectionsCompleted = 0]

WaitInit ==
    /\ Client \in { RunConfig(FALSE, rc, 0, cc, wc) :
                      rc \in BOOLEAN, cc \in 1 .. MaxWaitConnections,
                      wc \in 1 .. MaxWaitWorkers }
    /\ Workers = [w \in 0 .. (Client.WorkerCount - 1) |-> NewWorker]
    /\ Connections = [w \in 0 .. (Client.WorkerCount - 1) |-> << >>]
    /\ StartIndex = 0
    /\ WaitThread \in [pc : {"wait"}, Timeout : WaitTimeouts, i : {0}]
    /\ CompletionEvent = FALSE
    /\ SignalCount = 0
    /\ InducedFailure = FALSE
    /\ NoOptions /\ NoStreams /\ NoExtraData

\* Connection c of a worker whose counters go down by n.
RebaseThread(c, n) ==
    IF c.Thread.pc \in {"created", "queued"} THEN [c EXCEPT !.Thread.Seen = @ - n] ELSE c

\* The connections of a worker without the k-th, which was freed.
Forget(conns, k) == SubSeq(conns, 1, k - 1) \o SubSeq(conns, k + 1, Len(conns))

\* The transport has a thread per processor: the connections of worker w
\* that have one inside OnShutdownComplete.
InCallback(w) ==
    Cardinality({ k \in ConnIdsOf(w) : Connections[w][k].Thread.pc # "none" })

waitFrame == <<InducedFailure, optionVars, streamVars, ExtraData>>

\* `while (Client->Running)`.
WorkerLoop(w) ==
    /\ Workers[w].pc = "loop"
    /\ Workers' = [Workers EXCEPT ![w].pc = IF Client.Running THEN "drain" ELSE "exit"]
    /\ UNCHANGED <<Client, StartIndex, WaitThread, CompletionEvent, SignalCount,
                   Connections, waitFrame>>

\* `while (ConnectionsCreated < ConnectionsQueued) StartNewConnection();`,
\* one iteration up to the increment of ConnectionsCreated ...
WorkerDrain(w) ==
    /\ Workers[w].pc = "drain"
    /\ Workers[w].ConnectionsCreated < Workers[w].ConnectionsQueued
    /\ Workers' = [Workers EXCEPT ![w] = [StartNewConnectionCreated(@) EXCEPT
                                             !.pc = "created"]]
    /\ UNCHANGED <<Client, StartIndex, WaitThread, CompletionEvent, SignalCount,
                   Connections, waitFrame>>

\* ... and the rest of StartNewConnection.
WorkerActivate(w) ==
    /\ Workers[w].pc = "created"
    /\ LET r == StartNewConnectionActive(Workers[w], w, "none")
       IN  /\ Workers' = [Workers EXCEPT ![w] = [r.wk EXCEPT !.pc = "drain"]]
           /\ Connections' = [Connections EXCEPT ![w] = Append(@, r.conn)]
    /\ UNCHANGED <<Client, StartIndex, WaitThread, CompletionEvent, SignalCount, waitFrame>>

\* The inner loop ends and the thread enters WakeEvent.WaitForever().
WorkerPark(w) ==
    /\ Workers[w].pc = "drain"
    /\ ~(Workers[w].ConnectionsCreated < Workers[w].ConnectionsQueued)
    /\ Workers' = [Workers EXCEPT ![w].pc = "wait"]
    /\ UNCHANGED <<Client, StartIndex, WaitThread, CompletionEvent, SignalCount,
                   Connections, waitFrame>>

\* WakeEvent.WaitForever() returns.
WorkerWake(w) ==
    /\ Workers[w].pc = "wait"
    /\ Workers[w].WakeEvent
    /\ Workers' = [Workers EXCEPT ![w].pc = "loop", ![w].WakeEvent = FALSE]
    /\ UNCHANGED <<Client, StartIndex, WaitThread, CompletionEvent, SignalCount,
                   Connections, waitFrame>>

WorkerStep(w) ==
    /\ w \in WorkerIds
    /\ WorkerLoop(w) \/ WorkerDrain(w) \/ WorkerActivate(w) \/ WorkerPark(w) \/ WorkerWake(w)

\* The transport ends connection k of worker w, or the thread that does is
\* inside OnShutdownComplete: its next access.  The connection is forgotten
\* when it is freed.
ConnectionCompletes(w, k, first) ==
    /\ w \in WorkerIds
    /\ k \in ConnIdsOf(w)
    /\ Connections[w][k].Thread.pc = "none" => InCallback(w) < MaxTransportThreads
    /\ LET r == ConnOnShutdownCompleteStep(CW(w, k), first)
           n == r.wk.ConnectionsCompleted
       IN  /\ Workers' = [Workers EXCEPT ![w] = Rebase(r.wk)]
           /\ Connections' =
                 [Connections EXCEPT ![w] =
                     IF r.conn.State = "freed" THEN Forget(@, k)
                     ELSE [j \in 1 .. Len(@) |->
                             RebaseThread(IF j = k THEN r.conn ELSE @[j], n)]]
           /\ CompletionEvent' = (CompletionEvent \/ r.signal)
           /\ SignalCount' = SignalCount + (IF r.signal THEN 1 ELSE 0)
    /\ UNCHANGED <<Client, StartIndex, WaitThread, waitFrame>>

TransportStep(w) ==
    \E k \in 1 .. (MaxWaitConnections + MaxTransportThreads) : \E first \in Operands : ConnectionCompletes(w, k, first)

\* Wait is called when Start has returned.  The wait on CompletionEvent ends
\* because the event is set ...
WaitSignaled ==
    /\ StartIndex = Client.ConnectionCount
    /\ WaitThread.pc = "wait"
    /\ CompletionEvent
    /\ WaitThread' = [WaitThread EXCEPT !.pc = "stop"]
    /\ UNCHANGED <<Client, Workers, StartIndex, CompletionEvent, SignalCount,
                   Connections, waitFrame>>

\* ... or because the timeout, Timeout or else RunTime, is over; with neither
\* the wait is CxPlatEventWaitForever.
WaitTimeout ==
    /\ StartIndex = Client.ConnectionCount
    /\ WaitThread.pc = "wait"
    /\ (IF WaitThread.Timeout = 0 THEN Client.RunTime ELSE WaitThread.Timeout) # 0
    /\ WaitThread' = [WaitThread EXCEPT !.pc = "stop"]
    /\ UNCHANGED <<Client, Workers, StartIndex, CompletionEvent, SignalCount,
                   Connections, waitFrame>>

\* `Running = false;`.
WaitStop ==
    /\ WaitThread.pc = "stop"
    /\ Client' = [Client EXCEPT !.Running = FALSE]
    /\ WaitThread' = [WaitThread EXCEPT !.pc = "uninit", !.i = 0]
    /\ UNCHANGED <<Workers, StartIndex, CompletionEvent, SignalCount,
                   Connections, waitFrame>>

\* Workers[i].Uninitialize(): WakeEvent.Set(), then the join.
WaitUninitialize ==
    /\ WaitThread.pc = "uninit"
    /\ Workers' = [Workers EXCEPT ![WaitThread.i].WakeEvent = TRUE]
    /\ WaitThread' = [WaitThread EXCEPT !.pc = "join"]
    /\ UNCHANGED <<Client, StartIndex, CompletionEvent, SignalCount,
                   Connections, waitFrame>>

\* The join returns once the thread has left WorkerThread.
WaitJoin ==
    /\ WaitThread.pc = "join"
    /\ Workers[WaitThread.i].pc = "exit"
    /\ WaitThread' = [WaitThread EXCEPT
                         !.pc = IF WaitThread.i + 1 < Client.WorkerCount
                                THEN "uninit" ELSE "done",
                         !.i = @ + 1]
    /\ UNCHANGED <<Client, Workers, StartIndex, CompletionEvent, SignalCount,
                   Connections, waitFrame>>

WaitStep == WaitSignaled \/ WaitTimeout \/ WaitStop \/ WaitUninitialize \/ WaitJoin

WaitNext ==
    \/ StartQueue
    \/ \E w \in WorkerIds : WorkerLoop(w)
    \/ \E w \in WorkerIds : WorkerDrain(w)
    \/ \E w \in WorkerIds : WorkerActivate(w)
    \/ \E w \in WorkerIds : WorkerPark(w)
    \/ \E w \in WorkerIds : WorkerWake(w)
    \/ \E w \in WorkerIds : \E k \in ConnIdsOf(w) :
          \E first \in Operands : ConnectionCompletes(w, k, first)
    \/ WaitSignaled
    \/ WaitTimeout
    \/ WaitStop
    \/ WaitUninitialize
    \/ WaitJoin

\* Every thread that can take a step takes one in the end, and the transport
\* ends every connection.
SpecWait ==
    /\ WaitInit
    /\ [][WaitNext]_vars
    /\ WF_vars(StartQueue)
    /\ WF_vars(WaitStep)
    /\ \A w \in 0 .. (MaxWaitWorkers - 1) : WF_vars(WorkerStep(w))
    /\ \A w \in 0 .. (MaxWaitWorkers - 1) : WF_vars(TransportStep(w))

(***************************************************************************)
(* Claims checked under SpecWait.                                          *)
(***************************************************************************)
\* C7: once the wait on CompletionEvent has ended, by the event or by the
\* timeout, Wait sets Running to false, wakes every worker, every worker
\* thread leaves its loop, the joins complete and Wait returns.
C7_WaitReturns ==
    (WaitThread.pc = "stop") ~> (WaitThread.pc = "done")

\* The connections queued on worker w and not yet created.
Backlog(w) ==
    IF w \in WorkerIds
    THEN Workers[w].ConnectionsQueued - Workers[w].ConnectionsCreated
    ELSE 0

\* C15: no wake-up is lost.  ConnectionsCreated never exceeds
\* ConnectionsQueued; a thread that waits on WakeEvent with a backlog has the
\* event set; and, as long as Running stays true, a backlog is always followed
\* by StartNewConnection calls that bring ConnectionsCreated up to
\* ConnectionsQueued, whether the connections were queued by Start or by a
\* completion callback.
C15_NoLostWakeUp ==
    /\ [](\A w \in WorkerIds :
            /\ Backlog(w) >= 0
            /\ (Workers[w].pc = "wait" /\ Backlog(w) > 0) => Workers[w].WakeEvent)
    /\ \A w \in 0 .. (MaxWaitWorkers - 1) :
          [](Backlog(w) > 0 => <>(Backlog(w) = 0 \/ ~Client.Running))

\* C15's case: in repeat mode a connection was queued on a worker whose
\* thread had found no backlog and is inside WakeEvent.WaitForever(): the
\* backlog is there and the event is set.
C15_Witness ==
    \E w \in WorkerIds :
        /\ Client.Running /\ Client.RepeatConnections
        /\ StartIndex = Client.ConnectionCount
        /\ Workers[w].pc = "wait" /\ Workers[w].WakeEvent
        /\ Backlog(w) > 0

\* C16: once Running is false no connection is queued any more (the counters
\* being kept relative to ConnectionsCompleted, a QueueNewConnection is a step
\* that makes the backlog grow), and a thread that has left its loop on
\* Running = false calls StartNewConnection no more.
C16_StoppedWorkersQueueNothing ==
    [][ \A w \in WorkerIds :
            /\ ~Client.Running => Backlog(w)' <= Backlog(w)
            /\ Workers[w].pc = "exit" =>
                  Workers'[w].ConnectionsActive <= Workers[w].ConnectionsActive ]_vars

(***************************************************************************)
(* PerfClientStream and PerfClientConnection over TCP.  A stream carries    *)
(* its id (Entry.Signature) and FreeCount, how often it went back to       *)
(* StreamAllocator.  PerfClient.cpp inserts every stream into StreamTable  *)
(* and never removes one: a lookup finds a freed stream too, and a         *)
(* callback that touches it reads memory of the pool.  A callback works on *)
(* st, the objects it can reach: the streams, the connection, the worker,  *)
(* the client and the engine.                                              *)
(*                                                                         *)
(* Two reads of the callbacks are undefined; ub says how they come out:    *)
(*   ub.Null   "fault" when the read of StreamId through the null Next of  *)
(*             the last descriptor of a chain faults, "read" when it       *)
(*             yields a value                                              *)
(*   ub.Next   the value it yields                                         *)
(*   ub.Stale  TRUE when the memory of a freed stream still holds its      *)
(*             members, FALSE when touching it faults                      *)
(***************************************************************************)
NewTcpStream(cl, k, now, id) ==
    NewStream(cl, k, now) @@ [Signature |-> id, FreeCount |-> 0]

\* TcpSendData is declared in Tcp.h: its member Fin is a bit-field of one
\* bit or a whole byte (a bool holds what a byte holds, as far as the test
\* `Data->Fin` goes).
FinWidths == {1, 8}

QUIC_SEND_FLAG_FIN == 4

RECURSIVE Pow2(_)
Pow2(n) == IF n = 0 THEN 1 ELSE 2 * Pow2(n - 1)

\* `SendData->Fin = Flags & QUIC_SEND_FLAG_FIN`: the value the member holds
\* after the assignment, the low `bits` bits of the flag.
StoredFin(Fin, bits) == (IF Fin THEN QUIC_SEND_FLAG_FIN ELSE 0) % Pow2(bits)

\* `SendData->StreamId = Entry.Signature; ... Connection.TcpConn->Send(SendData)`
\* for the sends of one call of Send.  Fin is the member as `Data->Fin` tests
\* it.
TcpSendData(s, bits) ==
    [j \in 1 .. Len(s.Sends) |->
        [StreamId |-> s.Signature, Length |-> s.Sends[j].Length,
         Fin |-> StoredFin(s.Sends[j].Fin, bits) # 0, Abort |-> FALSE]]

\* Stream i after a call of Send: what it sent is with the engine.
TcpHandOver(st, i, s) ==
    [st EXCEPT !.Streams[i] = [s EXCEPT !.Sends = << >>],
               !.tcp.Sends = @ \o TcpSendData(s, st.tcp.FinBits)]

\* PerfClientConnection::GetTcpStream: the stream's place in Streams, 0 for
\* nullptr.
GetTcpStream(streams, ID) ==
    IF \E i \in DOMAIN streams : streams[i].Signature = ID
    THEN CHOOSE i \in DOMAIN streams : streams[i].Signature = ID
    ELSE 0

TcpFault(st, what) == [st EXCEPT !.tcp.Fault = what]

\* The callback is about to touch stream i, which is freed, and that faults.
TouchFaults(st, i, ub) == st.Streams[i].pc = "freed" /\ ~ub.Stale

\* PerfClientStream::OnStreamShutdownComplete, called from a TCP callback.
TcpFinalize(st, i) ==
    LET s == st.Streams[i]
        Success == SendSuccess(st.client, s) /\ RecvSuccess(st.client, s)
        r == FinalizeStream(st.client, [conn |-> st.conn, wk |-> st.wk], Success,
                            StreamLatency(s), 0)
    IN  [st EXCEPT !.Streams[i].pc = "freed", !.Streams[i].FreeCount = @ + 1,
                   !.Streams[i].Succeeded = Success,
                   !.conn = r.conn, !.wk = r.wk, !.client = r.client]

\* The body of `if (Stream) { ... }` in TcpSendCompleteCallback for the
\* descriptor Data and the stream the lookup found.
TcpCompleteSend(st, i, Data) ==
    LET s0 == st.Streams[i]
        s1 == OnSendComplete(st.client, s0, Data.Length, FALSE, st.clock)
        st1 == [TcpHandOver(st, i, s1) EXCEPT
                   !.clock = After(@, SendReads(st.client, s0, s1))]
    IN  IF (Data.Fin \/ Data.Abort) /\ s1.SendEndTime = 0
        THEN LET st2 == [st1 EXCEPT !.Streams[i].SendEndTime = Head(st1.clock),
                                    !.clock = Rest(@)]
             IN  IF st2.Streams[i].RecvEndTime # 0 THEN TcpFinalize(st2, i) ELSE st2
        ELSE st1

\* PerfClientConnection::TcpSendCompleteCallback.  The loop takes Data off the
\* chain, advances SendDataChain to Data->Next and then reads
\* SendDataChain->StreamId: the id of the following descriptor, and for the
\* last descriptor a read through nullptr.
RECURSIVE TcpSendCompleteCallback(_, _, _)
TcpSendCompleteCallback(st, SendDataChain, ub) ==
    IF SendDataChain = << >> \/ st.tcp.Fault # "none" THEN st
    ELSE
    LET Data == Head(SendDataChain)
        Next == Tail(SendDataChain)
    IN  IF Next = << >> /\ ub.Null = "fault"
        THEN TcpFault(st, "null-dereference")
        ELSE
        LET i == GetTcpStream(st.Streams,
                              IF Next = << >> THEN ub.Next ELSE Head(Next).StreamId)
        IN  TcpSendCompleteCallback(
                IF i = 0 THEN st
                ELSE IF TouchFaults(st, i, ub) THEN TcpFault(st, "use-after-free")
                ELSE TcpCompleteSend(st, i, Data),
                Next, ub)

\* PerfClientStream::OnReceive with UseTCP: past the deadline of a timed run
\* the stream sends an Abort descriptor and, if SendEndTime is set, is
\* finalized.
TcpOnReceive(st, i, Length, Finished) ==
    LET s  == st.Streams[i]
        now == Head(st.clock)
        s1 == [s EXCEPT !.BytesReceived = @ + Length,
                        !.RecvStartTime = IF @ = 0 THEN now ELSE @]
        s2 == IF Finished THEN [s1 EXCEPT !.RecvEndTime = now] ELSE s1
    IN  IF st.client.Timed /\ now - s2.RecvStartTime >= MS_TO_US(st.client.Download)
        THEN LET st1 == [st EXCEPT
                            !.Streams[i] = [s2 EXCEPT !.RecvEndTime = now],
                            !.tcp.Sends = Append(@, [StreamId |-> s.Signature, Length |-> 0,
                                                     Fin |-> FALSE, Abort |-> TRUE])]
             IN  IF s2.SendEndTime # 0 THEN TcpFinalize(st1, i) ELSE st1
        ELSE [st EXCEPT !.Streams[i] = s2]

\* PerfClientConnection::TcpReceiveCallback.
TcpReceiveCallback(st, StreamID, Fin, Abort, Length, ub) ==
    LET i == GetTcpStream(st.Streams, StreamID)
    IN  IF i = 0 THEN st
        ELSE IF TouchFaults(st, i, ub) THEN TcpFault(st, "use-after-free")
        ELSE
        LET st0 == TcpOnReceive(st, i, Length, Fin)
            st1 == [st0 EXCEPT !.clock = Rest(@)]
        IN  IF ~Abort THEN st1
            ELSE IF TouchFaults(st1, i, ub) THEN TcpFault(st1, "use-after-free")
            ELSE
            LET st2 == [st1 EXCEPT
                           !.Streams[i].RecvEndTime = IF @ = 0 THEN Head(st1.clock) ELSE @]
            IN  IF st2.Streams[i].SendEndTime # 0 THEN TcpFinalize(st2, i) ELSE st2

(***************************************************************************)
(* SpecTcp: one TCP connection and its streams.  The engine reports the    *)
(* outcome of the connect, completes the descriptors it was handed, in     *)
(* order and in chains, and delivers what the peer sends on a stream:      *)
(* data, the end of the data (Fin) or its abort.  After a fault the        *)
(* process is gone.                                                        *)
(***************************************************************************)
MaxTcpStreams == 2
MaxChain == 3

\* A timed run is modelled with one stream, or with several streams and
\* times of 0 ms.
TcpArgs ==
    { a \in [Help : {FALSE}, Fault : {"none"}, Target : {TRUE},
     Cibir : {[Given |-> FALSE, Hex |-> << >>]}, Bind : {"absent"},
     WorkerCount : {Absent}, ProcActiveCount : {1},
     UseTCP : {TRUE}, UseEncryption : {TRUE},
     PrintLatency : {FALSE}, ConnectionCount : {Absent},
     StreamCount : 1 .. MaxTcpStreams, IoSize : {MinIoSize},
     Upload : {Absent, 300}, Download : {Absent, 100}, Timed : BOOLEAN,
     RepeatConnections : {FALSE}, RepeatStreams : {FALSE}, RunTime : {Absent}] :
        a.Timed => (a.StreamCount = 1 \/ (a.Upload = Absent /\ a.Download = Absent)) }

TcpInit ==
    /\ Args \in TcpArgs
    /\ InitStatus = Init(Args, NewClient).status
    /\ Client = Init(Args, NewClient).client
    /\ Workers = [w \in {0} |->
                    [NewWorker EXCEPT !.ConnectionsQueued = 1, !.ConnectionsCreated = 1,
                                      !.ConnectionsActive = 1]]
    /\ Connections = [w \in {0} |-> <<NewConnection(0)>>]
    /\ Streams = << >>
    /\ Now = 1
    /\ Tcp \in { [NoTcp EXCEPT !.FinBits = bits] : bits \in FinWidths }
    /\ StartIndex = Client.ConnectionCount
    /\ WaitThread = [pc |-> "wait", Timeout |-> 0, i |-> 0]
    /\ CompletionEvent = FALSE
    /\ SignalCount = 0
    /\ InducedFailure = FALSE
    /\ NoExtraData

\* What the callbacks of the connection can reach, and the state they leave.
TcpState ==
    [Streams |-> Streams, conn |-> Connections[0][1], wk |-> Workers[0],
     client |-> Client, tcp |-> Tcp, clock |-> <<Now>>]

TcpDeliver(st) ==
    /\ Streams' = st.Streams
    /\ Connections' = [Connections EXCEPT ![0][1] = st.conn]
    /\ Workers' = [Workers EXCEPT ![0] = st.wk]
    /\ Client' = st.client
    /\ Tcp' = st.tcp
    /\ Now' = LastReading(st.clock)

\* The n streams StartNewStream has just inserted into StreamTable, the first
\* with id `id`, each after its first Send.
RECURSIVE TcpStartedStreams(_, _, _)
TcpStartedStreams(st, id, n) ==
    IF n = 0 THEN st
    ELSE LET i  == Len(st.Streams) + 1
             n0 == NewTcpStream(st.client, 1, Head(st.clock), id)
             s  == Send(st.client, n0, Rest(st.clock))
             s0 == [st EXCEPT !.Streams = Append(@, s),
                              !.clock = After(Rest(@), SendReads(st.client, n0, s))]
         IN  TcpStartedStreams(TcpHandOver(s0, i, s), id + 1, n - 1)

TcpTick ==
    /\ Tcp.Fault = "none"
    /\ Now < 1 + MaxTicks * TickUs
    /\ Now' = Now + TickUs
    /\ UNCHANGED <<Client, Workers, Connections, Streams, Tcp, runVars, optionVars, ExtraData>>

\* The engine reports the outcome of the connect: TcpConnectCallback.
TcpStreamsConnect(IsConnected) ==
    /\ Tcp.Fault = "none"
    /\ Connections[0][1].State = "started"
    /\ \E clock \in Clocks :
          LET r  == TcpConnectCallback(CW(0, 1), IsConnected)
              st == TcpStartedStreams([TcpState EXCEPT !.conn = r.conn, !.wk = r.wk,
                                                       !.clock = clock],
                                      Workers[0].StreamsStarted,
                                      r.wk.StreamsStarted - Workers[0].StreamsStarted)
          IN  /\ TcpDeliver(st)
              /\ CompletionEvent' = (CompletionEvent \/ r.signal)
              /\ SignalCount' = SignalCount + (IF r.signal THEN 1 ELSE 0)
    /\ UNCHANGED <<StartIndex, WaitThread, InducedFailure, optionVars, ExtraData>>

\* The thread inside OnShutdownComplete makes its next access.
TcpShutdownCompleteStep(first) ==
    /\ Tcp.Fault = "none"
    /\ ShutdownCompleteStep(0, 1, first)

\* The bytes the streams have handed over.
RECURSIVE TcpBytesSent(_)
TcpBytesSent(streams) ==
    IF streams = << >> THEN 0 ELSE Head(streams).BytesSent + TcpBytesSent(Tail(streams))

\* The engine completes the first n descriptors as one chain:
\* TcpSendCompleteCallback.  A timed stream sends until its time is over: the
\* model stops the streams at MaxTimedSends sends each.
TcpSendComplete(n, ub) ==
    /\ Tcp.Fault = "none"
    /\ n >= 1 /\ n <= Len(Tcp.Sends)
    /\ Client.Timed =>
          TcpBytesSent(Streams) < MaxTimedSends * Client.IoSize * Client.StreamCount
    /\ \E clock \in Clocks :
          TcpDeliver(TcpSendCompleteCallback(
                         [TcpState EXCEPT !.tcp.Sends = SubSeq(@, n + 1, Len(@)),
                                          !.tcp.Done = @ + n,
                                          !.clock = clock],
                         SubSeq(Tcp.Sends, 1, n), ub))
    /\ UNCHANGED <<runVars, optionVars, ExtraData>>

\* The most the peer sends on a stream: on the streams of a timed run with
\* several streams, nothing but its Fin or abort.
TcpMaxReceive == IF Client.Timed /\ Client.StreamCount > 1 THEN 0 ELSE MaxReceive

\* The peer's data, Fin or abort on the stream with id ID: TcpReceiveCallback.
TcpReceive(ID, Length, Fin, Abort, ub) ==
    /\ Tcp.Fault = "none"
    /\ LET i == GetTcpStream(Streams, ID)
       IN  /\ i # 0
           /\ ~Streams[i].RecvClosed
           /\ Length > 0 \/ Fin \/ Abort
           /\ Streams[i].BytesReceived + Length <= TcpMaxReceive
           /\ \E clock \in Clocks :
                 TcpDeliver(TcpReceiveCallback(
                                [TcpState EXCEPT !.Streams[i].RecvClosed = Fin \/ Abort,
                                                 !.clock = clock],
                                ID, Fin, Abort, Length, ub))
    /\ UNCHANGED <<runVars, optionVars, ExtraData>>

\* How the undefined reads can come out.
TcpUndefined ==
    { ub \in [Null : {"fault", "read"}, Next : 0 .. MaxTcpStreams, Stale : BOOLEAN] :
        ub.Null = "fault" => ub.Next = 0 }

TcpNext ==
    \/ TcpTick
    \/ \E IsConnected \in BOOLEAN : TcpStreamsConnect(IsConnected)
    \/ \E first \in Operands : TcpShutdownCompleteStep(first)
    \/ \E n \in 1 .. MaxChain : \E ub \in TcpUndefined : TcpSendComplete(n, ub)
    \/ \E ID \in 0 .. (MaxTcpStreams - 1) : \E Length \in {0, 50} :
          \E Fin \in BOOLEAN : \E Abort \in BOOLEAN : \E ub \in TcpUndefined :
             TcpReceive(ID, Length, Fin, Abort, ub)

SpecTcp == TcpInit /\ [][TcpNext]_vars

(***************************************************************************)
(* Claims checked under SpecTcp.                                           *)
(***************************************************************************)
\* C11: in TCP mode a stream whose SendEndTime and RecvEndTime are both
\* stamped, in whichever order, is finalized, and none stays un-finalized
\* forever: while the process runs, a state in which a stream is still open
\* with both end times stamped is not the last one, the engine has a callback
\* left to make.
C11_TcpFinalizedWhenBothStamped ==
    \A i \in StreamIds :
        ( /\ Streams[i].pc = "open"
          /\ Streams[i].SendEndTime # 0
          /\ Streams[i].RecvEndTime # 0
          /\ Tcp.Fault = "none" )
        => ENABLED TcpNext

\* The chain a step of the engine has completed.
CompletedChain == SubSeq(Tcp.Sends, 1, Tcp'.Done - Tcp.Done)

\* The bytes of the descriptors of the chain that carry the id ID, and whether
\* one of them carries Fin or Abort.
RECURSIVE ChainLength(_, _)
ChainLength(chain, ID) ==
    IF chain = << >> THEN 0
    ELSE (IF Head(chain).StreamId = ID THEN Head(chain).Length ELSE 0)
         + ChainLength(Tail(chain), ID)

ChainEnds(chain, ID) ==
    \E j \in 1 .. Len(chain) : chain[j].StreamId = ID /\ (chain[j].Fin \/ chain[j].Abort)

\* C12: TcpSendCompleteCallback applies the completion of every descriptor of
\* the chain, the last included, to the stream of that descriptor's own
\* StreamId: no read goes through the null Next of the last descriptor, a
\* stream is acknowledged the bytes of its own descriptors, and its SendEndTime
\* is stamped exactly when one of its own descriptors carries Fin or Abort and
\* the stamp was not set.
C12_CompletionOnOwnStream ==
    [][ Tcp'.Done > Tcp.Done =>
          /\ Tcp'.Fault # "null-dereference"
          /\ \A i \in StreamIds :
                (Streams[i].pc = "open" /\ Tcp'.Fault = "none") =>
                   /\ Streams'[i].BytesAcked =
                         Streams[i].BytesAcked
                            + ChainLength(CompletedChain, Streams[i].Signature)
                   /\ Streams'[i].SendEndTime =
                         IF Streams[i].SendEndTime = 0
                               /\ ChainEnds(CompletedChain, Streams[i].Signature)
                         THEN Now
                         ELSE Streams[i].SendEndTime ]_vars

\* C20: on every stream BytesOutstanding never goes below 0 (the unsigned
\* counter does not wrap on a send completion), BytesAcked never exceeds
\* BytesSent, and BytesSent is BytesAcked plus BytesOutstanding plus the bytes
\* of the sends that were completed as canceled.
C20_SendCountersBalance ==
    \A i \in StreamIds :
        Streams[i].pc = "open" =>
            /\ Streams[i].BytesOutstanding <= Streams[i].BytesSent
            /\ Streams[i].BytesAcked <= Streams[i].BytesSent
            /\ Streams[i].BytesSent = Streams[i].BytesAcked + Streams[i].BytesOutstanding
                                          + Streams[i].BytesCanceled

\* C26: each stream is finalized at most once: it goes back to
\* StreamAllocator once, StreamsActive is decremented once for it and never
\* goes below 0, and no callback touches a stream that was freed.
C26_FinalizedAtMostOnce ==
    /\ \A i \in StreamIds : Streams[i].FreeCount <= 1
    /\ \A k \in ConnIdsOf(0) : Connections[0][k].StreamsActive >= 0
    /\ Tcp.Fault # "use-after-free"

\* The streams of connection k.
StreamsOf(k) == { i \in StreamIds : Streams[i].Conn = k }

\* C17: not in repeat-streams mode, a connection with streams initiates
\* connection shutdown from OnStreamShutdownComplete exactly once: never
\* twice, never while fewer than StreamCount streams were created or while a
\* stream is still active, and always when the last of StreamCount streams
\* has been finalized.
C17_ShutdownOnceWhenStreamsDone ==
    (Client.StreamCount > 0 /\ ~Client.RepeatStreams) =>
        \A k \in ConnIdsOf(0) :
            LET c == Connections[0][k]
                Done == /\ c.StreamsCreated = Client.StreamCount
                        /\ Cardinality(StreamsOf(k)) = Client.StreamCount
                        /\ \A i \in StreamsOf(k) : Streams[i].pc = "freed"
            IN  /\ c.ShutdownCalls <= 1
                /\ c.ShutdownCalls = 1 <=> Done
(***************************************************************************)
(* SpecConn: the stream accounting of one QUIC connection, with up to      *)
(* MaxConnStreams streams at a time, repeat-streams mode or not, and       *)
(* StreamOpen calls that fail.  The callbacks of one connection and of its *)
(* streams are serialized by the transport.  In repeat-streams mode the    *)
(* model stops at MaxCreated streams.                                      *)
(***************************************************************************)
MaxConnStreams == 3
MaxCreated == 7

ConnInit ==
    /\ Client \in { [RunConfig(FALSE, FALSE, sc, 1, 1) EXCEPT
                        !.RepeatStreams = rs, !.RunTime = IF rs THEN 1000 ELSE 0] :
                      sc \in 1 .. MaxConnStreams, rs \in BOOLEAN }
    /\ Workers = [w \in {0} |->
                    [NewWorker EXCEPT !.ConnectionsQueued = 1, !.ConnectionsCreated = 1,
                                      !.ConnectionsActive = 1]]
    /\ Connections = [w \in {0} |-> <<NewConnection(0)>>]
    /\ StartIndex = 1
    /\ WaitThread = [pc |-> "wait", Timeout |-> 0, i |-> 0]
    /\ CompletionEvent = FALSE
    /\ SignalCount = 0
    /\ InducedFailure = FALSE
    /\ NoOptions /\ NoStreams /\ NoExtraData

\* A stream of the connection is finalized, with or without success; `fails`
\* of the StreamOpen calls of the top-up fail.
ConnStreamShutdownComplete(Success, fails) ==
    /\ Connections[0][1].OpenStreams > 0
    /\ Client.RepeatStreams => Connections[0][1].StreamsCreated < MaxCreated
    /\ fails > 0 => Client.RepeatStreams
    /\ LET r == FinalizeStream(Client, CW(0, 1), Success, 1, fails)
       IN  /\ Connections' = [Connections EXCEPT ![0][1] = r.conn]
           /\ Workers' = [Workers EXCEPT ![0] = r.wk]
           /\ Client' = r.client
    /\ InducedFailure' = (InducedFailure \/ ~Success \/ fails > 0)
    /\ UNCHANGED <<StartIndex, WaitThread, CompletionEvent, SignalCount>>
    /\ UNCHANGED <<optionVars, streamVars, ExtraData>>

ConnNext ==
    \/ \E fails \in 0 .. Client.StreamCount : QuicConnected(0, 1, fails)
    \/ \E Success \in BOOLEAN : \E fails \in 0 .. 1 :
          ConnStreamShutdownComplete(Success, fails)
    \/ QuicShutdownComplete(0, 1)
    \/ \E first \in Operands : ShutdownCompleteStep(0, 1, first)

SpecConn == ConnInit /\ [][ConnNext]_vars

\* C18: in repeat-streams mode StreamsActive never exceeds StreamCount; once
\* OnConnectionComplete has run, and after every OnStreamShutdownComplete,
\* StreamsActive is StreamCount again; and the connection never initiates
\* shutdown from the stream-completion path.
C18_RepeatStreamsToppedUp ==
    Client.RepeatStreams =>
        \A k \in ConnIdsOf(0) :
            LET c == Connections[0][k]
            IN  /\ c.StreamsActive <= Client.StreamCount
                /\ c.State = "connected" => c.StreamsActive = Client.StreamCount
                /\ c.ShutdownCalls = 0

\* C18's case: with two streams at a time, three streams have finished and
\* were replaced, one of them by a stream whose StreamOpen failed.
C18_Witness ==
    /\ Client.RepeatStreams /\ Client.StreamCount = 2
    /\ Connections[0][1].State = "connected"
    /\ Connections[0][1].StreamsCreated = 5
    /\ Connections[0][1].StreamsActive = 2
    /\ Connections[0][1].OpenStreams = 1
    /\ Workers[0].StreamsStarted = 4
(***************************************************************************)
(* SpecSend: the send side of one QUIC stream of a run that is not timed.  *)
(* The transport completes the sends it was handed, each once, in order    *)
(* and with its own length, and reports ideal send buffer sizes; the peer  *)
(* does not abort.  Here Sends keeps every send the stream has handed over *)
(* and Completed counts those the transport has completed; Reported is the *)
(* size of the last ideal-send-buffer event.                               *)
(***************************************************************************)
SendUploads == {0, 4, 8, 256, 300, 512, 600, 1000}
SendIoSizes == {256, 512}
IdealSizes == {0, 256, 1024}

SendInit ==
    /\ Client \in { [RunConfig(FALSE, FALSE, 1, 1, 1) EXCEPT
                        !.Upload = up, !.IoSize = io, !.UseSendBuffering = sb] :
                      up \in SendUploads, io \in SendIoSizes, sb \in BOOLEAN }
    /\ Workers = [w \in {0} |->
                    [NewWorker EXCEPT !.ConnectionsQueued = 1, !.ConnectionsCreated = 1,
                                      !.ConnectionsActive = 1]]
    /\ Connections = [w \in {0} |-> <<NewConnection(0)>>]
    /\ Streams = << >>
    /\ Now = 1
    /\ Tcp = NoTcp
    /\ StartIndex = 1
    /\ WaitThread = [pc |-> "wait", Timeout |-> 0, i |-> 0]
    /\ CompletionEvent = FALSE
    /\ SignalCount = 0
    /\ InducedFailure = FALSE
    /\ NoOptions /\ NoExtraData

sendFrame == <<Client, Workers, Connections, Now, Tcp, runVars, optionVars, ExtraData>>

\* QUIC_CONNECTION_EVENT_CONNECTED: OnConnectionComplete counts the connection
\* and calls StartNewStream, which counts the stream in StreamsCreated and
\* StreamsActive, opens it, counts it in StreamsStarted and calls Send.
SendStart ==
    /\ Connections[0][1].State = "started"
    /\ LET r == ConnectionCallback(CW(0, 1), "CONNECTED", 0)
           started == StartedStreams(1, r.wk.StreamsStarted - Workers[0].StreamsStarted,
                                     <<Now>>)
       IN  /\ Connections' = [Connections EXCEPT ![0][1] = r.conn]
           /\ Workers' = [Workers EXCEPT ![0] = r.wk]
           /\ Streams' = [j \in 1 .. Len(started) |->
                             started[j] @@ [Completed |-> 0, Reported |-> 0]]
    /\ UNCHANGED <<Client, Now, Tcp, runVars, optionVars, ExtraData>>

\* QUIC_STREAM_EVENT_SEND_COMPLETE for the oldest send not yet completed.
SendCompletes(Canceled) ==
    /\ Streams # << >>
    /\ Streams[1].Completed < Len(Streams[1].Sends)
    /\ LET s == Streams[1]
           Event == [Type |-> "SEND_COMPLETE", Length |-> s.Sends[s.Completed + 1].Length,
                     Canceled |-> Canceled]
           s1 == [s EXCEPT !.Completed = @ + 1,
                           !.BytesCanceled = IF Canceled THEN @ + Event.Length ELSE @]
       IN  Streams' = <<StreamCallback(Client, s1, Event, <<Now>>)>>
    /\ UNCHANGED sendFrame

\* QUIC_STREAM_EVENT_IDEAL_SEND_BUFFER_SIZE.
SendIdealSize(ByteCount) ==
    /\ Streams # << >>
    /\ LET Event == [Type |-> "IDEAL_SEND_BUFFER_SIZE", ByteCount |-> ByteCount]
       IN  Streams' = <<StreamCallback(Client, [Streams[1] EXCEPT !.Reported = ByteCount],
                                       Event, <<Now>>)>>
    /\ UNCHANGED sendFrame

SendNext ==
    \/ SendStart
    \/ \E Canceled \in BOOLEAN : SendCompletes(Canceled)
    \/ \E ByteCount \in IdealSizes : SendIdealSize(ByteCount)

SpecSend == SendInit /\ [][SendNext]_vars

\* The bytes of the sends in L.
RECURSIVE SumLengths(_)
SumLengths(L) == IF L = << >> THEN 0 ELSE Head(L).Length + SumLengths(Tail(L))

\* What a stream of a run that is not timed has to send.
SendTotal == IF Client.Upload # 0 THEN Client.Upload ELSE 8

\* SpecSend with the transport completing every send it was handed,
\* canceled or not; that it reports an ideal send buffer is not required.
SendCompletion == \E Canceled \in BOOLEAN : SendCompletes(Canceled)

SpecSendFair ==
    SendInit /\ [][SendNext]_vars /\ WF_vars(SendStart) /\ WF_vars(SendCompletion)

\* Each send of a stream is at most IoSize long, the sends never add up to
\* more than Upload (8 when Upload is 0) and add up to exactly that once
\* SendComplete is set, FIN is on one send only, the last, and nothing is sent
\* after it.
SendsWithinUpload ==
    \A i \in StreamIds :
        LET s == Streams[i]
            L == s.Sends
        IN  /\ \A j \in 1 .. Len(L) :
                  /\ L[j].Length <= Client.IoSize
                  /\ L[j].Fin <=> (j = Len(L) /\ s.SendComplete)
            /\ s.BytesSent = SumLengths(L)
            /\ s.BytesSent <= SendTotal
            /\ s.SendComplete <=> s.BytesSent = SendTotal

\* The sends of the stream add up to Upload (8 when Upload is 0); a
\* completion was canceled; the ideal send buffer is 0.
SendsReachedTotal == Streams # << >> /\ SumLengths(Streams[1].Sends) = SendTotal
SendWasCanceled == Streams # << >> /\ Streams[1].BytesCanceled > 0
SendBufferZero == Streams # << >> /\ Streams[1].IdealSendBuffer = 0

\* C19 as stated: in a run that is not timed, whatever the order of the send
\* completions and ideal-send-buffer events, the sends of a stream stay
\* within IoSize and Upload, with FIN on the last only, and they add up to
\* exactly Upload (8 when Upload is 0).
C19_SendsReachUpload ==
    []SendsWithinUpload /\ <>SendsReachedTotal

\* C19: in a run that is not timed, whatever the order of the send
\* completions and ideal-send-buffer events, each send of a stream is at most
\* IoSize long, the sends never add up to more than Upload (8 when Upload is
\* 0) and add up to exactly that once SendComplete is set, FIN is on one send
\* only, the last, and nothing is sent after it; and the sends do add up to
\* Upload in the end unless a completion is canceled or the ideal send buffer
\* stays at 0.
C19_SendsAddUpToUpload ==
    /\ []SendsWithinUpload
    /\ (<>SendsReachedTotal \/ <>SendWasCanceled \/ <>[]SendBufferZero)

\* C19's case: an upload of 600 bytes with an IoSize of 256 has gone out as
\* 256, 256 and 88 bytes, the last with FIN; all three are completed and the
\* transport has reported an ideal send buffer of 1024.
C19_Witness ==
    /\ Client.Upload = 600 /\ Client.IoSize = 256
    /\ Len(Streams) = 1
    /\ Streams[1].IdealSendBuffer = 1024
    /\ Len(Streams[1].Sends) = 3
    /\ Streams[1].Sends[3] = [Length |-> 88, Fin |-> TRUE]
    /\ Streams[1].Completed = 3
    /\ Streams[1].BytesAcked = 600
    /\ Streams[1].SendComplete
\* The sends stream s has handed over from its n-th on.
SendsAfter(s, n) == SubSeq(s.Sends, n + 1, Len(s.Sends))

\* C21: a send completion takes its Length off BytesOutstanding.  Canceled,
\* it changes nothing else: BytesAcked, BytesSent and SendComplete stay and no
\* send is issued.  Not canceled, it adds Length to BytesAcked and re-enters
\* Send: the sends issued in the step are accounted in BytesSent and
\* BytesOutstanding, and the step ends with SendComplete set or with
\* BytesOutstanding at IdealSendBuffer or above.
C21_CanceledCompletionBenign ==
    [][ (Streams # << >> /\ Streams'[1].Completed = Streams[1].Completed + 1) =>
          LET s == Streams[1]
              t == Streams'[1]
              Length == s.Sends[s.Completed + 1].Length
              Issued == SumLengths(SendsAfter(t, Len(s.Sends)))
          IN  /\ t.BytesSent = s.BytesSent + Issued
              /\ t.BytesOutstanding = s.BytesOutstanding - Length + Issued
              /\ IF t.BytesCanceled # s.BytesCanceled
                 THEN /\ t.BytesAcked = s.BytesAcked
                      /\ t.SendComplete = s.SendComplete
                      /\ t.Sends = s.Sends
                 ELSE /\ t.BytesAcked = s.BytesAcked + Length
                      /\ t.SendComplete \/ t.BytesOutstanding >= t.IdealSendBuffer ]_vars

\* C21's case: of an upload of 600 bytes the first send was completed and
\* credited, the second was completed as canceled, and the last 88 bytes
\* were not sent.
C21_Witness ==
    /\ Client.Upload = 600 /\ Client.IoSize = 256
    /\ Len(Streams) = 1
    /\ Streams[1].Completed = 2
    /\ Streams[1].BytesAcked = 256
    /\ Streams[1].BytesCanceled = 256
    /\ Streams[1].BytesOutstanding = 0
    /\ Streams[1].BytesSent = 512
    /\ ~Streams[1].SendComplete
\* C22: an ideal-send-buffer event is taken only when Upload is not 0, send
\* buffering is off and the size reported differs from IdealSendBuffer: then
\* IdealSendBuffer becomes that size and Send is re-entered, which issues
\* sends only while SendComplete is false and BytesOutstanding is below
\* IdealSendBuffer.  In every other case nothing of the stream changes and
\* nothing is sent.
C22_IdealSendBufferTaken ==
    [][ (Streams # << >> /\ Streams'[1].Completed = Streams[1].Completed) =>
          LET s == Streams[1]
              t == Streams'[1]
              ByteCount == t.Reported
              New == SendsAfter(t, Len(s.Sends))
              Issued == SumLengths(New)
          IN  IF Client.Upload # 0 /\ ~Client.UseSendBuffering
                    /\ ByteCount # s.IdealSendBuffer
              THEN /\ t.IdealSendBuffer = ByteCount
                   /\ t.BytesSent = s.BytesSent + Issued
                   /\ t.BytesOutstanding = s.BytesOutstanding + Issued
                   /\ t.BytesAcked = s.BytesAcked
                   /\ New # << >> =>
                         /\ ~s.SendComplete
                         /\ s.BytesOutstanding < ByteCount
                         /\ t.BytesOutstanding - New[Len(New)].Length < ByteCount
                   /\ t.SendComplete \/ t.BytesOutstanding >= ByteCount
              ELSE t = [s EXCEPT !.Reported = ByteCount] ]_vars

\* C22's case: the transport has reported an ideal send buffer of 1024 to a
\* stream with 1000 bytes to upload in sends of 256, none yet completed: the
\* stream has sent them all, the last 232 with FIN.
C22_Witness ==
    /\ Client.Upload = 1000 /\ Client.IoSize = 256 /\ ~Client.UseSendBuffering
    /\ Len(Streams) = 1
    /\ Streams[1].IdealSendBuffer = 1024
    /\ Streams[1].Completed = 0
    /\ Len(Streams[1].Sends) = 4
    /\ Streams[1].BytesOutstanding = 1000
    /\ Streams[1].SendComplete
(***************************************************************************)
(* SpecConnFair: SpecConn with the transport ending every stream that was  *)
(* opened.  That the transport gives a connection up (SHUTDOWN_COMPLETE    *)
(* without a ConnectionShutdown) is possible and not required to happen.   *)
(***************************************************************************)
StreamsEnd ==
    \E Success \in BOOLEAN : \E fails \in 0 .. 1 : ConnStreamShutdownComplete(Success, fails)

SpecConnFair == ConnInit /\ [][ConnNext]_vars /\ WF_vars(StreamsEnd)

\* C27: not in repeat-streams mode, a QUIC connection that has received
\* CONNECTED initiates connection shutdown in the end, every stream that was
\* opened being ended by the transport, also when a StreamOpen call of
\* StartNewStream has failed.
C27_ConnectedShutsDown ==
    [](( /\ ~Client.RepeatStreams
         /\ Connections[0][1].Connect = "connected" )
       => <>( Connections[0][1].ShutdownCalls > 0 ))
====
